---- MODULE Spec2Model ----
(***************************************************************************)
(* Model of the homunculus surface builder: the Husk (husk.rs), its rings  *)
(* (ring.rs / model.rs), the branch accumulator and the mesh builder       *)
(* (mesh.rs).                                                              *)
(*                                                                         *)
(* Floating point geometry is kept symbolic: a vertex position is the      *)
(* record of the ring frame, spoke angle and scaled distance it was        *)
(* computed from.  A ring transform is the frame it started in plus the    *)
(* number of quarter turns about Z applied since (the axis vectors used    *)
(* as inputs are axis-aligned, so every rotation is a quarter turn).       *)
(***************************************************************************)
EXTENDS Integers, Sequences, FiniteSets, TLC

\* ------------------------------------------------------------------ bounds

\* Husk operations (ring / branch / write_gltf calls) per behaviour
MaxOps == 3

\* Spokes the caller declares per behaviour in the topology specification
MaxDeclared == 4

\* push_vtx and push_face calls on a mesh builder used on its own
MaxPushes == 7

\* Length of the shortest root JSON text handed to the GLB writer
JsonLen == 640

\* Setter calls on a ring
MaxSetters == 3

\* Largest coordinate of the points handed to a plane
MaxCoord == 1

\* Largest length of the normals handed to a plane
MaxNormal == 2

\* push_vtx and push_face calls on a builder that splits edge seams
MaxSeamPushes == 6

\* Edges of a branch whose edge vertices are asked for on its own
MaxCycle == 4

\* Spokes of a ring in the band specification
MaxSpokes == 5

\* Spokes of the rings whose angular orders are computed on their own
MaxRingSize == 6

\* Husk operations per behaviour when the rings are the few of the
\* specification of long call sequences
MaxLongOps == 4

\* ------------------------------------------------------------------ values

\* Option::None and Option::Some(x)
None == <<>>

Some(x) == <<x>>

\* Branch labels used by the callers
Labels == {"a", "b"}

\* derive(Ord) on String, restricted to Labels
LabelRank(l) == IF l = "a" THEN 0 ELSE 1

\* Pt::Vertex(v)
Vertex(v) == [t |-> "Vertex", v |-> v, l |-> ""]

\* Pt::Branch(label)
Branch(l) == [t |-> "Branch", v |-> 0, l |-> l]

\* derive(Ord) on Pt: variant order first (Vertex < Branch), then payload
PtLess(a, b) ==
    IF a.t # b.t THEN a.t = "Vertex"
    ELSE IF a.t = "Vertex" THEN a.v < b.v
    ELSE LabelRank(a.l) < LabelRank(b.l)

\* derive(Ord) on Point: order_deg, then ring_id, then pt_type
PointLess(p, q) ==
    IF p.order_deg # q.order_deg THEN p.order_deg < q.order_deg
    ELSE IF p.ring_id # q.ring_id THEN p.ring_id < q.ring_id
    ELSE PtLess(p.pt_type, q.pt_type)

\* let v = x in F(v): x is evaluated once and F sees its value
Let(x, F(_)) == CHOOSE y \in {F(v) : v \in {x}} : TRUE

\* Vec::sort (ascending, stable): the element at sorted position i is the one
\* with i - 1 elements before it
SortPoints(s) ==
    LET before(j) ==
          {k \in 1..Len(s) :
              PointLess(s[k], s[j]) \/ (k < j /\ ~PointLess(s[j], s[k]))}
    IN [i \in 1..Len(s) |->
          s[CHOOSE j \in 1..Len(s) : Cardinality(before(j)) = i - 1]]

\* Vec::reverse
Reverse(s) == [i \in 1..Len(s) |-> s[Len(s) + 1 - i]]

\* ------------------------------------------------------------------ Degrees

\* impl From<f32> for Degrees, applied to Ring::angle(i) = 2 pi i / n:
\* (360 i / n).rem_euclid(360) rounded half away from zero.  With n = 0 the
\* angle is NaN, which casts to 0.
DegreesFromAngle(i, n) ==
    IF n = 0 THEN 0
    ELSE LET num == (360 * i) % (360 * n)
         IN (2 * num + n) \div (2 * n)

\* impl Add for Degrees: self.0 + rhs.0 % 360 (% binds tighter than +)
DegreesAdd(a, b) == a + (b % 360)

\* ------------------------------------------------------------------ Ring

\* An axis vector the callers pass to Ring::axis (axis-aligned, z = 0)
AxisX2 == <<2, 0, 0>>

\* Vec3::length of an axis-aligned vector
AxisLength(axis) ==
    LET abs(x) == IF x < 0 THEN -x ELSE x
    IN abs(axis[1]) + abs(axis[2]) + abs(axis[3])

\* Ring::transform_rotate on the matrix: counter-clockwise quarter turns about
\* Z.  up.angle_between(proj) is -pi/2 for +X and +pi/2 for -X; an axis with
\* x = 0 and z = 0 applies no rotation.
AxisTurns(axis) ==
    IF axis[1] > 0 THEN 3 ELSE IF axis[1] < 0 THEN 1 ELSE 0

\* Affine3A::IDENTITY (frame 0 is the world frame)
IdentityXform == [frame |-> 0, rot |-> 0, tx |-> 0, ty |-> 0]

\* Affine3A * Affine3A where the right factor is a caller's ring transform
\* (a pure rotation)
XformMul(a, b) == [a EXCEPT !.rot = (a.rot + b.rot) % 4]

\* Spoke { distance, label }
Spoke(d, l) == [distance |-> d, label |-> l]

\* Spoke::default()
DefaultSpoke == Spoke(1, None)

\* Ring::default()
DefaultRing ==
    [id |-> 0, spacing |-> None, scale |-> None, shading |-> None,
     spokes |-> <<>>, xform |-> IdentityXform]

\* Ring::transform_rotate
TransformRotate(ring, axis) ==
    [ring EXCEPT !.spacing = Some(AxisLength(axis)),
                 !.xform.rot = (ring.xform.rot + AxisTurns(axis)) % 4]

\* Ring::transform_translate: translation += matrix3 * (0, spacing, 0)
TransformTranslate(ring) ==
    LET s == IF ring.spacing = None THEN 1 ELSE ring.spacing[1]
        r == ring.xform.rot
        dx == IF r = 1 THEN -s ELSE IF r = 3 THEN s ELSE 0
        dy == IF r = 0 THEN s ELSE IF r = 2 THEN -s ELSE 0
    IN [ring EXCEPT !.xform.tx = ring.xform.tx + dx,
                    !.xform.ty = ring.xform.ty + dy]

\* Ring::axis
RingAxis(ring, axis) == TransformRotate(ring, axis)

\* Ring::scale
RingScale(ring, scale) == [ring EXCEPT !.scale = Some(scale)]

\* Ring::shading
RingShading(ring, shading) == [ring EXCEPT !.shading = Some(shading)]

\* An f32 handed to a setter: its sign bit, its kind (finite, inf or nan)
\* and, when finite, its magnitude
F32(neg, kind, mag) == [neg |-> neg, kind |-> kind, mag |-> mag]

\* f32::is_finite
IsFinite(f) == f.kind = "finite"

\* f32::is_sign_positive: the sign bit is clear (false for -0.0)
IsSignPositive(f) == ~f.neg

\* The number a finite f32 stands for
F32Val(f) == IF f.neg THEN 0 - f.mag ELSE f.mag

\* struct Ring with its points field (Ring::default() has none; with_branch
\* pushes one for each edge)
RingWithPoints(ring, pts) == [points |-> pts] @@ ring

\* The assertions of Ring::axis fail
AxisPanics(axis) == \E k \in 1..3 : ~IsFinite(axis[k])

\* A Ring::scale that accepts a branch ring
ScalePanicsOnValue(ring, scale) ==
    ~IsFinite(scale) \/ ~IsSignPositive(scale)

\* The assertions of Ring::scale fail
ScalePanics(ring, scale) ==
    ring.points # <<>> \/ ~IsFinite(scale) \/ ~IsSignPositive(scale)

\* The assertions of Ring::spoke fail
SpokePanics(ring, spoke) ==
    \/ ring.points # <<>>
    \/ ~IsSignPositive(spoke.distance)
    \/ ~IsFinite(spoke.distance)

\* Ring::spoke after its assertions: self.spokes.push(spoke)
RingSpoke(ring, spoke) == [ring EXCEPT !.spokes = Append(@, spoke)]

\* A caller's ring: Ring::default() with the spokes pushed by Ring::spoke,
\* followed by the setters the caller uses (an Option each)
BuildRing(spokes, axis, scale, shading) ==
    LET r0 == [DefaultRing EXCEPT !.spokes = spokes]
        r1 == IF axis = None THEN r0 ELSE RingAxis(r0, axis[1])
        r2 == IF scale = None THEN r1 ELSE RingScale(r1, scale[1])
    IN IF shading = None THEN r2 ELSE RingShading(r2, shading[1])

\* Option::or
OptionOr(a, b) == IF a # None THEN a ELSE b

\* A with_ring that takes scale and shading from the new ring alone
WithRingForgets(self, ring) ==
    TransformTranslate(
        [id |-> 0,
         spacing |-> OptionOr(ring.spacing, self.spacing),
         scale |-> ring.scale,
         shading |-> ring.shading,
         spokes |-> IF ring.spokes = <<>> THEN self.spokes ELSE ring.spokes,
         xform |-> XformMul(self.xform, ring.xform)])

\* Ring::with_ring (Ring::update_with in model.rs): self is the previous ring
WithRing(self, ring) ==
    LET merged ==
          [id |-> self.id,
           spacing |-> OptionOr(ring.spacing, self.spacing),
           scale |-> OptionOr(ring.scale, self.scale),
           shading |-> OptionOr(ring.shading, self.shading),
           spokes |-> IF ring.spokes = <<>> THEN self.spokes ELSE ring.spokes,
           xform |-> XformMul(self.xform, ring.xform)]
    IN TransformTranslate(merged)

\* Ring::scale_or_default
ScaleOrDefault(ring) == IF ring.scale = None THEN 1 ELSE ring.scale[1]

\* Ring::smoothing_or_default / shading_or_default
ShadingOrDefault(ring) ==
    IF ring.shading = None THEN "Smooth" ELSE ring.shading[1]

\* Ring::half_step: 180 / spokes.len(), an integer division that panics on 0
HalfStepPanics(ring) == Len(ring.spokes) = 0

HalfStep(ring) == 180 \div Len(ring.spokes)

\* A position: transform_point3 of the rotated spoke (distance r at angle deg)
\* in the ring's transform.  The origin of a transform is its translation.
Position(xform, deg, r) ==
    IF r = 0
    THEN [frame |-> xform.frame, tx |-> xform.tx, ty |-> xform.ty,
          rot |-> 0, deg |-> 0, r |-> 0]
    ELSE [frame |-> xform.frame, tx |-> xform.tx, ty |-> xform.ty,
          rot |-> xform.rot, deg |-> deg, r |-> r]

\* ------------------------------------------------------------------ Branch

\* Branch::default()
DefaultBranch == [internal |-> <<>>, edges |-> <<>>]

\* Branch::push_internal
PushInternal(branch, pos) == [branch EXCEPT !.internal = Append(@, pos)]

\* Branch::push_edge
PushEdge(branch, v0, v1) == [branch EXCEPT !.edges = Append(@, <<v0, v1>>)]

\* slice::swap on a 1-based sequence
Swap(s, i, j) == [s EXCEPT ![i] = s[j], ![j] = s[i]]

\* Branch::edge_vertex_count: sort + dedup of all edge end points
EdgeVertexCount(branch) ==
    Cardinality({branch.edges[i][1] : i \in 1..Len(branch.edges)}
                \cup {branch.edges[i][2] : i \in 1..Len(branch.edges)})

\* An inner loop of edge_vids that never swaps
EdgeVidsInnerKeeps(edges, vid, i, j) == edges

\* Inner loop of edge_vids: for j in (i + 1)..len (0-based i, j)
RECURSIVE EdgeVidsInner(_, _, _, _)
EdgeVidsInner(edges, vid, i, j) ==
    IF j >= Len(edges) THEN edges
    ELSE IF vid = edges[j + 1][1]
         THEN EdgeVidsInner(Swap(edges, i + 1, j + 1), vid, i, j + 1)
         ELSE EdgeVidsInner(edges, vid, i, j + 1)

\* Outer loop of edge_vids: for i in 1..len
RECURSIVE EdgeVidsOuter(_, _, _)
EdgeVidsOuter(edges, vid, i) ==
    IF i >= Len(edges) THEN edges
    ELSE LET e == EdgeVidsInner(edges, vid, i, i + 1)
         IN EdgeVidsOuter(e, e[i + 1][2], i + 1)

\* Branch::edge_vids(edge) for a non-empty edge list (edges[0] panics on an
\* empty one); edge is a 0-based index
EdgeVids(edges, edge) ==
    LET e0 == IF edge > 0 THEN Swap(edges, 1, edge + 1) ELSE edges
        e1 == EdgeVidsOuter(e0, e0[1][2], 1)
    IN [i \in 1..Len(e1) |-> e1[i][1]]

\* ------------------------------------------------------------------ MeshBuilder

\* Face::new: debug_assert_ne! on each pair of indices
FaceDistinct(vtx) == vtx[1] # vtx[2] /\ vtx[2] # vtx[3] /\ vtx[3] # vtx[1]

\* Face { vtx, surface }
Face(vtx, smoothing) == [vtx |-> vtx, smoothing |-> smoothing]

\* MeshBuilder::push_face panics on an index >= pos.len()
PushFacePanics(h, vtx) == \E i \in 1..3 : vtx[i] >= Len(h.pos)

\* Width of a stored vertex index: struct Vertex(pub u16)
IndexBits == 16

\* Number of values of a stored vertex index
IndexLimit == 2 ^ IndexBits

\* A conversion that never fails (v as u16)
VertexFromWraps(v) == FALSE

\* impl From<usize> for Vertex: try_into::<u16>().expect(..) panics above
\* u16::MAX
VertexFromPanics(v) == v >= IndexLimit

\* impl From<usize> for Vertex: the value as u16
VertexFrom(v) == v % IndexLimit

\* MeshBuilder { pos, faces } that starts with base vertices that no face
\* refers to (their positions are left out): pos[k] belongs to vertex
\* base + k - 1
NewMeshBuilder(base) == [base |-> base, pos |-> <<>>, faces |-> <<>>]

\* self.pos.len()
VertexCount(mb) == mb.base + Len(mb.pos)

\* A vertex lookup that ignores the index
MeshVertexFirst(mb, idx) == mb.pos[1]

\* MeshBuilder::vertex: self.pos[idx]
MeshVertex(mb, idx) == mb.pos[idx - mb.base + 1]

\* MeshBuilder::push_vtx on the mesh builder
MeshPushVtx(mb, p) == [mb EXCEPT !.pos = Append(@, p)]

\* MeshBuilder::push_face on the mesh builder: panics on an index >= pos.len()
MeshPushFace(mb, face) ==
    IF \E k \in 1..3 : face.vtx[k] >= VertexCount(mb)
    THEN [mb |-> mb, res |-> "Panic"]
    ELSE [mb |-> [mb EXCEPT !.faces = Append(@, face)], res |-> "Ok"]

\* Face::vertex_surface: the face's shading value if it touches idx
VertexSurface(face, idx) ==
    IF \E k \in 1..3 : face.vtx[k] = idx THEN Some(face.smoothing) ELSE None

\* Face::split_vertex: the first corner equal to idx becomes i
FaceSplitVertex(face, idx, i) ==
    IF face.vtx[1] = idx THEN [face EXCEPT !.vtx[1] = i]
    ELSE IF face.vtx[2] = idx THEN [face EXCEPT !.vtx[2] = i]
    ELSE IF face.vtx[3] = idx THEN [face EXCEPT !.vtx[3] = i]
    ELSE face

\* The loop of vertex_needs_split from face k on; surface is the value of
\* the face before (None if that face does not touch idx)
RECURSIVE NeedsSplitLoop(_, _, _, _)
NeedsSplitLoop(fs, idx, k, surface) ==
    IF k > Len(fs) THEN FALSE
    ELSE Let(VertexSurface(fs[k], idx), LAMBDA surf :
        IF surf # None /\ surface # None /\ surf[1] # surface[1]
        THEN TRUE
        ELSE NeedsSplitLoop(fs, idx, k + 1, surf))

\* MeshBuilder::vertex_needs_split
VertexNeedsSplit(mb, idx) == NeedsSplitLoop(mb.faces, idx, 1, None)

\* First loop of split_vertex: the (surface, index) pairs
RECURSIVE SurfacesLoop(_, _, _, _)
SurfacesLoop(fs, idx, k, surfaces) ==
    IF k > Len(fs) THEN surfaces
    ELSE Let(VertexSurface(fs[k], idx), LAMBDA surf :
        IF surf = None THEN SurfacesLoop(fs, idx, k + 1, surfaces)
        ELSE IF surfaces = <<>>
        THEN SurfacesLoop(fs, idx, k + 1, <<<<surf[1], idx>>>>)
        ELSE IF ~\E j \in 1..Len(surfaces) : surfaces[j][1] = surf[1]
        THEN SurfacesLoop(fs, idx, k + 1, Append(surfaces, <<surf[1], 0>>))
        ELSE SurfacesLoop(fs, idx, k + 1, surfaces))

\* Second loop of split_vertex: every pair whose index is 0 gets the index
\* of a vertex pushed for it
PushedSurfaces(surfaces, count) ==
    [i \in 1..Len(surfaces) |->
        IF surfaces[i][2] = 0
        THEN <<surfaces[i][1],
               count + Cardinality({j \in 1..(i - 1) : surfaces[j][2] = 0})>>
        ELSE surfaces[i]]

\* MeshBuilder::split_vertex
SplitVertex(mb, idx) ==
    Let(SurfacesLoop(mb.faces, idx, 1, <<>>), LAMBDA s0 :
    Let(PushedSurfaces(s0, VertexCount(mb)), LAMBDA surfaces :
        [base |-> mb.base,
         pos |-> mb.pos \o
                 [j \in 1..Cardinality({i \in 1..Len(s0) : s0[i][2] = 0})
                     |-> MeshVertex(mb, idx)],
         faces |->
            [f \in 1..Len(mb.faces) |->
                Let(VertexSurface(mb.faces[f], idx), LAMBDA surf :
                    IF surf = None THEN mb.faces[f]
                    ELSE Let(surfaces[CHOOSE j \in 1..Len(surfaces) :
                                /\ surfaces[j][1] = surf[1]
                                /\ \A m \in 1..(j - 1) :
                                      surfaces[m][1] # surf[1]][2],
                             LAMBDA i :
                        IF i # idx
                        THEN FaceSplitVertex(mb.faces[f], idx, i)
                        ELSE mb.faces[f]))]]))

\* The loops of split_vertices from vertex idx on.  A vertex below base is
\* touched by no face, so vertex_needs_split is false for it.
RECURSIVE SplitLoop(_, _, _)
SplitLoop(mb, idx, vertices) ==
    IF idx >= vertices THEN mb
    ELSE IF VertexNeedsSplit(mb, idx)
    THEN Let(SplitVertex(mb, idx), LAMBDA m : SplitLoop(m, idx, vertices))
    ELSE SplitLoop(mb, idx + 1, vertices)

\* MeshBuilder::split_vertices
SplitVertices(mb) == SplitLoop(mb, mb.base, VertexCount(mb))

\* MeshBuilder::build_normals: one normal for each vertex
BuildNormals(mb) == VertexCount(mb)

\* MeshBuilder::build_indices panics in Vertex::from
BuildIndicesPanics(mb) ==
    \E f \in 1..Len(mb.faces) : \E k \in 1..3 :
        VertexFromPanics(mb.faces[f].vtx[k])

\* A build_indices that lists the corners of each face from the last to the
\* first
BuildIndicesTurned(mb) ==
    [i \in 1..(3 * Len(mb.faces)) |->
        VertexFrom(mb.faces[((i - 1) \div 3) + 1].vtx[3 - ((i - 1) % 3)])]

\* MeshBuilder::build_indices: three indices for each face
BuildIndices(mb) ==
    [i \in 1..(3 * Len(mb.faces)) |->
        VertexFrom(mb.faces[((i - 1) \div 3) + 1].vtx[((i - 1) % 3) + 1])]

\* Mesh::new
MeshNew(mb) ==
    IF BuildIndicesPanics(mb)
    THEN [res |-> "Panic", base |-> mb.base, pos |-> <<>>, norm |-> 0,
          indices |-> <<>>]
    ELSE [res |-> "Ok", base |-> mb.base, pos |-> mb.pos,
          norm |-> BuildNormals(mb), indices |-> BuildIndices(mb)]

\* MeshBuilder::build
Build(mb) == Let(SplitVertices(mb), LAMBDA m : MeshNew(m))

\* ------------------------------------------------- edge seams (src/mesh.rs)

\* Face::new of the builder that splits edge seams: every edge is smooth
SeamFace(vtx) == [vtx |-> vtx, edge |-> <<"Smooth", "Smooth", "Smooth">>]

\* Face::with_flat: every edge is sharp
WithFlat(face) == [face EXCEPT !.edge = <<"Sharp", "Sharp", "Sharp">>]

\* Face::is_sharp_vertex (edge k joins corner k and the corner after it)
IsSharpVertex(face, idx) ==
    \/ face.vtx[1] = idx /\ (face.edge[1] = "Sharp" \/ face.edge[3] = "Sharp")
    \/ face.vtx[2] = idx /\ (face.edge[2] = "Sharp" \/ face.edge[1] = "Sharp")
    \/ face.vtx[3] = idx /\ (face.edge[3] = "Sharp" \/ face.edge[2] = "Sharp")

\* MeshBuilder::default of that builder
SeamBuilder == [pos |-> <<>>, faces |-> <<>>]

\* Its push_vtx
SeamPushVtx(sb, p) == [sb EXCEPT !.pos = Append(@, p)]

\* Its push_face panics on an index >= pos.len()
SeamPushFacePanics(sb, face) == \E k \in 1..3 : face.vtx[k] >= Len(sb.pos)

\* Its push_face
SeamPushFace(sb, face) == [sb EXCEPT !.faces = Append(@, face)]

\* The loop of its vertex_needs_split from face k on
RECURSIVE SeamNeedsLoop(_, _, _, _)
SeamNeedsLoop(fs, idx, k, found) ==
    IF k > Len(fs) THEN FALSE
    ELSE IF IsSharpVertex(fs[k], idx)
    THEN IF found THEN TRUE ELSE SeamNeedsLoop(fs, idx, k + 1, TRUE)
    ELSE SeamNeedsLoop(fs, idx, k + 1, found)

\* Its vertex_needs_split
SeamNeedsSplit(sb, idx) == SeamNeedsLoop(sb.faces, idx, 1, FALSE)

\* The first corner of the face that is idx becomes i
SeamRepoint(face, idx, i) ==
    IF face.vtx[1] = idx THEN [face EXCEPT !.vtx[1] = i]
    ELSE IF face.vtx[2] = idx THEN [face EXCEPT !.vtx[2] = i]
    ELSE IF face.vtx[3] = idx THEN [face EXCEPT !.vtx[3] = i]
    ELSE face

\* A split_vertex that repoints every face that is sharp at idx
SeamSplitAll(sb, idx) ==
    [pos |-> Append(sb.pos, sb.pos[idx + 1]),
     faces |-> [f \in 1..Len(sb.faces) |->
                  IF IsSharpVertex(sb.faces[f], idx)
                  THEN SeamRepoint(sb.faces[f], idx, Len(sb.pos))
                  ELSE sb.faces[f]]]

\* Its split_vertex: the position is pushed again and the first face that is
\* sharp at idx is repointed (the loop breaks there)
SeamSplitVertex(sb, idx) ==
    [pos |-> Append(sb.pos, sb.pos[idx + 1]),
     faces |-> [f \in 1..Len(sb.faces) |->
                  IF /\ IsSharpVertex(sb.faces[f], idx)
                     /\ \A g \in 1..(f - 1) : ~IsSharpVertex(sb.faces[g], idx)
                  THEN SeamRepoint(sb.faces[f], idx, Len(sb.pos))
                  ELSE sb.faces[f]]]

\* ------------------------------------------------------------------ glTF

\* Byte counts pass 2^31, so they are kept as numbers of two limbs
\* <<hi, lo>> that stand for hi * Limb + lo with lo < Limb
Limb == 2 ^ 16

\* Carry the low limb into the high limb
Norm(a) == <<a[1] + (a[2] \div Limb), a[2] % Limb>>

\* A count as a number of two limbs
Wide(n) == <<n \div Limb, n % Limb>>

\* a + b
WideAdd(a, b) == Norm(<<a[1] + b[1], a[2] + b[2]>>)

\* n * k for a count n and a small factor k
WideMul(n, k) == Norm(<<(n \div Limb) * k, (n % Limb) * k>>)

\* a % 4
WideMod4(a) == a[2] % 4

\* Width of the length fields of a GLB: u32
LenBits == 32

\* a needs more than LenBits bits
Overflows(a) == a[1] >= 2 ^ (LenBits - 16)

\* a as u32: a % 2^LenBits
Wrap(a) == <<a[1] % (2 ^ (LenBits - 16)), a[2]>>

\* size_of::<Vertex>(): a u16
IndexSize == 2

\* size_of::<Vec3>(): three f32
Vec3Size == 12

\* Bytes that `while len % 4 != 0 { push }` appends to len bytes
PadTo4(len) == Wide((4 - WideMod4(len)) % 4)

\* A byte buffer, kept as runs of bytes: <<what the bytes are, how many>>
RECURSIVE BytesLen(_)
BytesLen(runs) ==
    IF runs = <<>> THEN Wide(0)
    ELSE WideAdd(runs[1][2], BytesLen(Tail(runs)))

\* Builder::default()
NewBuilder == [bin |-> <<>>, views |-> <<>>, accessors |-> <<>>,
               meshes |-> <<>>]

\* The padding loop of push_index_view / push_array_view
PadBin(bin) ==
    IF WideMod4(BytesLen(bin)) # 0
    THEN Append(bin, <<"zero", PadTo4(BytesLen(bin))>>)
    ELSE bin

\* A view pushed without the padding loop
PushViewUnpadded(b, what, count, size, byteStride, target) ==
    [b EXCEPT !.bin = Append(@, <<what, WideMul(count, size)>>),
              !.views = Append(@, [byteLength |-> WideMul(count, size),
                                   byteOffset |-> BytesLen(b.bin),
                                   byteStride |-> byteStride,
                                   target |-> target])]

\* push_index_view / push_array_view followed by self.views.push(v): count
\* elements of size bytes each
PushView(b, what, count, size, byteStride, target) ==
    Let(PadBin(b.bin), LAMBDA bin :
        [b EXCEPT !.bin = Append(bin, <<what, WideMul(count, size)>>),
                  !.views = Append(@, [byteLength |-> WideMul(count, size),
                                       byteOffset |-> BytesLen(bin),
                                       byteStride |-> byteStride,
                                       target |-> target])])

\* self.accessors.push(json!({...}))
PushAccessor(b, componentType, type, count) ==
    [b EXCEPT !.accessors = Append(@, [bufferView |-> Len(b.views),
                                       componentType |-> componentType,
                                       type |-> type,
                                       count |-> count])]

\* mesh.positions().len()
PositionCount(m) == m.base + Len(m.pos)

\* mesh.pos_min() / pos_max(): reduce(..).unwrap() panics without positions
PosMinPanics(m) == PositionCount(m) = 0

\* Builder::add_mesh (without its panic)
AddMesh(b, m) ==
    Let(PushView(PushAccessor(b, "U16", "SCALAR", Len(m.indices)),
                 "indices", Len(m.indices), IndexSize, None,
                 "ElementArrayBuffer"), LAMBDA b1 :
    Let(PushView(PushAccessor(b1, "F32", "VEC3", PositionCount(m)),
                 "positions", PositionCount(m), Vec3Size, Some(Vec3Size),
                 "ArrayBuffer"), LAMBDA b2 :
    Let(PushView(PushAccessor(b2, "F32", "VEC3", PositionCount(m)),
                 "normals", m.norm, Vec3Size, Some(Vec3Size),
                 "ArrayBuffer"), LAMBDA b3 :
        [b3 EXCEPT !.meshes = Append(@, [POSITION |-> Len(b1.views),
                                         NORMAL |-> Len(b2.views),
                                         indices |-> Len(b.views)])])))

\* One write_all call: what is written, how many bytes, and the number a
\* length field encodes (0 for other bytes)
Write(what, bytes, val) == [what |-> what, bytes |-> bytes, val |-> val]

\* 12 + chunks * 8 + len
TotalLen(chunks, len) == WideAdd(Wide(12 + chunks * 8), len)

\* Glb::write_header(chunks, len), in u32 arithmetic that wraps around
WriteHeader(chunks, len) ==
    <<Write("glTF", Wide(4), Wide(0)), Write("version", Wide(4), Wide(2)),
      Write("total_len", Wide(4), Wrap(TotalLen(chunks, len)))>>

\* Glb::write_chunk(ctype, data) with data.len() bytes of data
WriteChunk(ctype, dataLen) ==
    <<Write("len", Wide(4), dataLen), Write(ctype, Wide(4), Wide(0)),
      Write(ctype \o " data", dataLen, Wide(0))>>

\* The outcome of export: what the writer received, the root JSON text
\* (its length before padding and the spaces pushed) and the builder
Exported(res, out, jsonLen, spaces, b) ==
    [res |-> res, out |-> out, jsonLen |-> jsonLen, spaces |-> spaces,
     bin |-> b.bin, views |-> b.views, accessors |-> b.accessors,
     byteLength |-> BytesLen(b.bin)]

\* export(writer, mesh) on a writer that accepts every byte; jsonLen is the
\* length of builder.json().to_string().  Overflow of total_len panics in a
\* debug build and wraps around in a release build.
Export(m, jsonLen, debug) ==
    IF PosMinPanics(m)
    THEN Exported("Panic", <<>>, Wide(0), Wide(0), NewBuilder)
    ELSE Let(AddMesh(NewBuilder, m), LAMBDA b :
         Let(WideAdd(Wide(jsonLen), PadTo4(Wide(jsonLen))), LAMBDA rootLen :
         Let(WideAdd(rootLen, BytesLen(b.bin)), LAMBDA len :
            IF Overflows(len) \/ (debug /\ Overflows(TotalLen(2, len)))
            THEN Exported("Panic", <<>>, Wide(jsonLen),
                          PadTo4(Wide(jsonLen)), b)
            ELSE Exported("Ok",
                    WriteHeader(2, len) \o WriteChunk("JSON", rootLen)
                        \o WriteChunk("BIN", BytesLen(b.bin)),
                    Wide(jsonLen), PadTo4(Wide(jsonLen)), b))))

\* An export that goes on with the next write when a write fails
ExportToGoesOn(m, jsonLen, debug, accepts) ==
    Let(Export(m, jsonLen, debug), LAMBDA e :
        IF e.res = "Ok" /\ accepts # None /\ accepts[1] < Len(e.out)
        THEN [failed |-> Some(e.out[accepts[1] + 1])] @@
             [e EXCEPT !.res = "Io",
                       !.out = SubSeq(e.out, 1, accepts[1])
                               \o SubSeq(e.out, accepts[1] + 2, Len(e.out))]
        ELSE [failed |-> None] @@ e)

\* export(writer, mesh) on a writer that accepts every write_all call
\* (accepts = None) or accepts a number of them and fails the next one: each
\* write_all is followed by `?`, so the error is returned and no later write
\* is made.  out holds the calls that succeeded, failed the call that did not.
ExportTo(m, jsonLen, debug, accepts) ==
    Let(Export(m, jsonLen, debug), LAMBDA e :
        IF e.res = "Ok" /\ accepts # None /\ accepts[1] < Len(e.out)
        THEN [failed |-> Some(e.out[accepts[1] + 1])] @@
             [e EXCEPT !.res = "Io", !.out = SubSeq(e.out, 1, accepts[1])]
        ELSE [failed |-> None] @@ e)

\* Number of write_all calls of an export that runs to its end
WriteCalls ==
    Len(WriteHeader(2, Wide(0))) + Len(WriteChunk("JSON", Wide(0)))
        + Len(WriteChunk("BIN", Wide(0)))

\* ------------------------------------------------------------------ Plane

\* Vec3::dot
Dot(a, b) == a[1] * b[1] + a[2] * b[2] + a[3] * b[3]

\* Vec3::length of a vector along one coordinate axis
Length(v) ==
    LET abs(x) == IF x < 0 THEN 0 - x ELSE x
    IN abs(v[1]) + abs(v[2]) + abs(v[3])

\* A normalize that returns its argument
NormalizeNot(v) == v

\* Vec3::normalize of a vector along one coordinate axis (exact in f32)
Normalize(v) ==
    <<v[1] \div Length(v), v[2] \div Length(v), v[3] \div Length(v)>>

\* Plane::new(normal, point)
PlaneNew(normal, point) ==
    Let(Normalize(normal), LAMBDA n :
        [normal |-> n, origin_dist |-> 0 - Dot(n, point)])

\* Plane::point_dist
PointDist(self, point) == Dot(self.normal, point) + self.origin_dist

\* ------------------------------------------------------------------ Husk

\* A result: the husk after the call and Ok or the error (Panic: the call
\* aborted the process)
Res(h, res) == [h |-> h, res |-> res]

\* Husk::new()
NewHusk ==
    [pos |-> <<>>, faces |-> <<>>, ring_id |-> 0, ring |-> None,
     points |-> <<>>, branches |-> <<>>]

\* MeshBuilder::push_vtx (the new index is the old pos.len())
PushVtx(h, pos) == [h EXCEPT !.pos = Append(@, pos)]

\* Husk::push_pt
PushPt(h, order_deg, pt_type) ==
    [h EXCEPT !.points = Append(@, [order_deg |-> order_deg,
                                    ring_id |-> h.ring_id,
                                    pt_type |-> pt_type])]

\* An add_branch_vertex that inserts an entry for a new label without
\* pushing the position
AddBranchVertexLate(h, label, pos) ==
    [h EXCEPT !.branches =
       [l \in DOMAIN h.branches \cup {label} |->
          IF l \notin DOMAIN h.branches THEN DefaultBranch
          ELSE IF l = label THEN PushInternal(h.branches[l], pos)
          ELSE h.branches[l]]]

\* Husk::add_branch_vertex
AddBranchVertex(h, label, pos) ==
    LET old == IF label \in DOMAIN h.branches THEN h.branches[label]
               ELSE DefaultBranch
    IN [h EXCEPT !.branches =
          [l \in DOMAIN h.branches \cup {label} |->
             IF l = label THEN PushInternal(old, pos) ELSE h.branches[l]]]

\* An add_ring_points that pushes a vertex for a labeled spoke too
RECURSIVE AddRingPointsAll(_, _, _)
AddRingPointsAll(h, ring, i) ==
    IF i >= Len(ring.spokes) THEN h
    ELSE LET rpt == ring.spokes[i + 1]
             order_deg == DegreesFromAngle(i, Len(ring.spokes))
             pos == Position(ring.xform, order_deg,
                             rpt.distance * ScaleOrDefault(ring))
             vid == Len(h.pos)
         IN IF rpt.label = None
            THEN Let(PushPt(PushVtx(h, pos), order_deg, Vertex(vid)),
                     LAMBDA h1 : AddRingPointsAll(h1, ring, i + 1))
            ELSE Let(PushPt(AddBranchVertex(PushVtx(h, pos), rpt.label[1],
                                            pos),
                            order_deg, Branch(rpt.label[1])),
                     LAMBDA h1 : AddRingPointsAll(h1, ring, i + 1))

\* Husk::add_ring_points: the loop from spoke i (0-based) on
RECURSIVE AddRingPoints(_, _, _)
AddRingPoints(h, ring, i) ==
    IF i >= Len(ring.spokes) THEN h
    ELSE LET rpt == ring.spokes[i + 1]
             order_deg == DegreesFromAngle(i, Len(ring.spokes))
             pos == Position(ring.xform, order_deg,
                             rpt.distance * ScaleOrDefault(ring))
             vid == Len(h.pos)
         IN IF rpt.label = None
            THEN Let(PushPt(PushVtx(h, pos), order_deg, Vertex(vid)),
                     LAMBDA h1 : AddRingPoints(h1, ring, i + 1))
            ELSE Let(PushPt(AddBranchVertex(h, rpt.label[1], pos), order_deg,
                            Branch(rpt.label[1])),
                     LAMBDA h1 : AddRingPoints(h1, ring, i + 1))

\* The points of self.points with the ring's id, offset by hs_other, in the
\* order of self.points
RingPointsFilter(points, id, hs_other) ==
    LET mine == SelectSeq(points, LAMBDA p : p.ring_id = id)
    IN [i \in 1..Len(mine) |->
          [mine[i] EXCEPT !.order_deg = DegreesAdd(@, hs_other)]]

\* Husk::ring_points: filter, sort, reverse (descending)
RingPoints(h, ring, hs_other) ==
    Let(RingPointsFilter(h.points, ring.id, hs_other),
        LAMBDA pts : Reverse(SortPoints(pts)))

\* An add_face that does not compare the labels of Branch corners
AddFaceAnyLabels(h, pts, smoothing, debug) ==
    LET t == [i \in 1..3 |-> pts[i].pt_type]
        nb == Cardinality({i \in 1..3 : t[i].t = "Branch"})
        vtx == <<t[1].v, t[2].v, t[3].v>>
        b == SelectSeq(<<t[1], t[2], t[3]>>, LAMBDA x : x.t = "Branch")
        edge == IF t[1].t = "Branch" THEN <<t[2].v, t[3].v>>
                ELSE IF t[2].t = "Branch" THEN <<t[3].v, t[1].v>>
                ELSE <<t[1].v, t[2].v>>
    IN CASE nb = 0 ->
              IF debug /\ ~FaceDistinct(vtx) THEN Res(h, "Panic")
              ELSE IF PushFacePanics(h, vtx) THEN Res(h, "Panic")
              ELSE Res([h EXCEPT !.faces = Append(@, Face(vtx, smoothing))],
                       "Ok")
         [] nb = 1 ->
              IF b[1].l \notin DOMAIN h.branches
              THEN Res(h, "UnknownBranchLabel")
              ELSE Res([h EXCEPT !.branches[b[1].l] =
                          PushEdge(@, edge[1], edge[2])], "Ok")
         [] OTHER -> Res(h, "Ok")

\* An add_face that takes the edge of every pattern in corner order
AddFaceCornerOrder(h, pts, smoothing, debug) ==
    LET t == [i \in 1..3 |-> pts[i].pt_type]
        nb == Cardinality({i \in 1..3 : t[i].t = "Branch"})
        vtx == <<t[1].v, t[2].v, t[3].v>>
        \* the Branch corners in corner order
        b == SelectSeq(<<t[1], t[2], t[3]>>, LAMBDA x : x.t = "Branch")
        edge == IF t[1].t = "Branch" THEN <<t[2].v, t[3].v>>
                ELSE IF t[2].t = "Branch" THEN <<t[1].v, t[3].v>>
                ELSE <<t[1].v, t[2].v>>
    IN CASE nb = 0 ->
              IF debug /\ ~FaceDistinct(vtx) THEN Res(h, "Panic")
              ELSE IF PushFacePanics(h, vtx) THEN Res(h, "Panic")
              ELSE Res([h EXCEPT !.faces = Append(@, Face(vtx, smoothing))],
                       "Ok")
         [] nb = 1 ->
              IF b[1].l \notin DOMAIN h.branches
              THEN Res(h, "UnknownBranchLabel")
              ELSE Res([h EXCEPT !.branches[b[1].l] =
                          PushEdge(@, edge[1], edge[2])], "Ok")
         [] nb = 2 ->
              IF b[1].l # b[2].l THEN Res(h, "InvalidBranches")
              ELSE Res(h, "Ok")
         [] OTHER ->
              IF b[1].l # b[2].l \/ b[1].l # b[3].l
              THEN Res(h, "InvalidBranches")
              ELSE Res(h, "Ok")

\* Husk::add_face.  debug is the build profile (debug assertions enabled).
AddFace(h, pts, smoothing, debug) ==
    LET t == [i \in 1..3 |-> pts[i].pt_type]
        nb == Cardinality({i \in 1..3 : t[i].t = "Branch"})
        vtx == <<t[1].v, t[2].v, t[3].v>>
        \* the Branch corners in corner order
        b == SelectSeq(<<t[1], t[2], t[3]>>, LAMBDA x : x.t = "Branch")
        \* (Branch, v0, v1) | (v1, Branch, v0) | (v0, v1, Branch)
        edge == IF t[1].t = "Branch" THEN <<t[2].v, t[3].v>>
                ELSE IF t[2].t = "Branch" THEN <<t[3].v, t[1].v>>
                ELSE <<t[1].v, t[2].v>>
    IN CASE nb = 0 ->
              IF debug /\ ~FaceDistinct(vtx) THEN Res(h, "Panic")
              ELSE IF PushFacePanics(h, vtx) THEN Res(h, "Panic")
              ELSE Res([h EXCEPT !.faces = Append(@, Face(vtx, smoothing))],
                       "Ok")
         [] nb = 1 ->
              IF b[1].l \notin DOMAIN h.branches
              THEN Res(h, "UnknownBranchLabel")
              ELSE Res([h EXCEPT !.branches[b[1].l] =
                          PushEdge(@, edge[1], edge[2])], "Ok")
         [] nb = 2 ->
              IF b[1].l # b[2].l THEN Res(h, "InvalidBranches")
              ELSE Res(h, "Ok")
         [] OTHER ->
              IF b[1].l # b[2].l \/ b[1].l # b[3].l
              THEN Res(h, "InvalidBranches")
              ELSE Res(h, "Ok")

\* A strip loop that adds no face
BandLoopNone(h, band, pt0, pt1, ring0, debug) ==
    [h |-> h, res |-> "Ok", pt0 |-> pt0, pt1 |-> pt1]

\* The triangle strip loop of make_band: band is in pop order (ascending)
RECURSIVE BandLoop(_, _, _, _, _, _)
BandLoop(h, band, pt0, pt1, ring0, debug) ==
    IF band = <<>> THEN [h |-> h, res |-> "Ok", pt0 |-> pt0, pt1 |-> pt1]
    ELSE Let(AddFace(h, <<pt1, pt0, Head(band)>>, ShadingOrDefault(ring0),
                     debug),
             LAMBDA r :
               IF r.res # "Ok"
               THEN [h |-> r.h, res |-> r.res, pt0 |-> pt0, pt1 |-> pt1]
               ELSE IF Head(band).ring_id = ring0.id
                    THEN BandLoop(r.h, Tail(band), Head(band), pt1, ring0,
                                  debug)
                    ELSE BandLoop(r.h, Tail(band), pt0, Head(band), ring0,
                                  debug))

\* A make_band that always adds both closing faces
BandCloseAlways(loop, first0, first1, sm, debug) ==
    IF loop.res # "Ok" THEN Res(loop.h, loop.res)
    ELSE Let(AddFace(loop.h, <<loop.pt1, loop.pt0, first1>>, sm, debug),
             LAMBDA c1 :
               IF c1.res # "Ok" THEN c1
               ELSE AddFace(c1.h, <<first0, first1, loop.pt0>>, sm, debug))

\* A make_band that leaves out the second closing face
BandCloseOnce(loop, first0, first1, sm, debug) ==
    IF loop.res # "Ok" THEN Res(loop.h, loop.res)
    ELSE IF loop.pt1 # first1
    THEN AddFace(loop.h, <<loop.pt1, loop.pt0, first1>>, sm, debug)
    ELSE Res(loop.h, "Ok")

\* The end of make_band: connect with the first vertices on the band
BandClose(loop, first0, first1, sm, debug) ==
    IF loop.res # "Ok" THEN Res(loop.h, loop.res)
    ELSE Let(IF loop.pt1 # first1
             THEN AddFace(loop.h, <<loop.pt1, loop.pt0, first1>>, sm, debug)
             ELSE Res(loop.h, "Ok"),
             LAMBDA c1 :
               IF c1.res # "Ok" THEN c1
               ELSE IF loop.pt0 # first0
                    THEN AddFace(c1.h, <<first0, first1, loop.pt0>>, sm, debug)
                    ELSE c1)

\* make_band once the points of both rings are collected (descending)
BandOf(h, pts0, pts1, ring0, debug) ==
    IF pts0 = <<>> \/ pts1 = <<>> THEN Res(h, "InvalidRing")
    ELSE LET first0 == pts0[Len(pts0)]
             first1 == pts1[Len(pts1)]
             rest == SubSeq(pts0, 1, Len(pts0) - 1)
                     \o SubSeq(pts1, 1, Len(pts1) - 1)
         IN Let(SortPoints(rest),
                LAMBDA band :
                  Let(BandLoop(h, band, first0, first1, ring0, debug),
                      LAMBDA loop :
                        BandClose(loop, first0, first1,
                                  ShadingOrDefault(ring0), debug)))

\* Husk::make_band
MakeBand(h, ring0, ring1, debug) ==
    IF ring0.id = ring1.id THEN Res(h, "InvalidRing")
    ELSE IF HalfStepPanics(ring1) \/ HalfStepPanics(ring0) THEN Res(h, "Panic")
    ELSE Let(<<RingPoints(h, ring0, HalfStep(ring1)),
               RingPoints(h, ring1, HalfStep(ring0))>>,
             LAMBDA p : BandOf(h, p[1], p[2], ring0, debug))

\* A ring() that advances the counter when make_band fails too
HuskRingCounts(h, arg, debug) ==
    LET pring == h.ring
        merged == IF pring # None THEN WithRing(pring[1], arg) ELSE arg
        ring == [merged EXCEPT !.id = h.ring_id]
    IN Let(AddRingPoints([h EXCEPT !.ring = Some(ring)], ring, 0),
           LAMBDA h1 :
             IF pring = None THEN Res([h1 EXCEPT !.ring_id = @ + 1], "Ok")
             ELSE Let(MakeBand(h1, pring[1], ring, debug),
                      LAMBDA band :
                        Res([band.h EXCEPT !.ring_id = @ + 1], band.res)))

\* Husk::ring
HuskRing(h, arg, debug) ==
    LET pring == h.ring
        merged == IF pring # None THEN WithRing(pring[1], arg) ELSE arg
        ring == [merged EXCEPT !.id = h.ring_id]
    IN Let(AddRingPoints([h EXCEPT !.ring = Some(ring)], ring, 0),
           LAMBDA h1 :
             IF pring = None THEN Res([h1 EXCEPT !.ring_id = @ + 1], "Ok")
             ELSE Let(MakeBand(h1, pring[1], ring, debug),
                      LAMBDA band :
                        IF band.res # "Ok" THEN band
                        ELSE Res([band.h EXCEPT !.ring_id = @ + 1], "Ok")))

\* The fan loop of cap_ring: pts is in drain order
RECURSIVE CapLoop(_, _, _, _, _, _)
CapLoop(h, pts, prev, center, sm, debug) ==
    IF pts = <<>> THEN [h |-> h, res |-> "Ok", prev |-> prev]
    ELSE Let(AddFace(h, <<Head(pts), prev, center>>, sm, debug),
             LAMBDA r :
               IF r.res # "Ok" THEN [h |-> r.h, res |-> r.res, prev |-> prev]
               ELSE CapLoop(r.h, Tail(pts), Head(pts), center, sm, debug))

\* A cap_ring that leaves the fan open between the last two points
CapFanOpen(h, ring, all, debug) ==
    LET last == all[Len(all)]
        pts == SubSeq(all, 1, Len(all) - 1)
        vid == Len(h.pos)
        sm == ShadingOrDefault(ring)
    IN Let(PushPt(PushVtx(h, Position(ring.xform, 0, 0)), 0, Vertex(vid)),
           LAMBDA h1 :
             Let(CapLoop(h1, pts, last, h1.points[Len(h1.points)], sm, debug),
                 LAMBDA loop :
                   IF loop.res # "Ok" THEN Res(loop.h, loop.res)
                   ELSE Res([loop.h EXCEPT !.ring_id = @ + 1], "Ok")))

\* cap_ring from the cap center point on: all is the ring's points (descending)
CapFan(h, ring, all, debug) ==
    LET last == all[Len(all)]
        pts == SubSeq(all, 1, Len(all) - 1)
        vid == Len(h.pos)
        sm == ShadingOrDefault(ring)
    IN Let(PushPt(PushVtx(h, Position(ring.xform, 0, 0)), 0, Vertex(vid)),
           LAMBDA h1 :
             Let(CapLoop(h1, pts, last, h1.points[Len(h1.points)], sm, debug),
                 LAMBDA loop :
                   IF loop.res # "Ok" THEN Res(loop.h, loop.res)
                   ELSE Let(AddFace(loop.h,
                                    <<last, loop.prev,
                                      h1.points[Len(h1.points)]>>, sm, debug),
                            LAMBDA f :
                              IF f.res # "Ok" THEN f
                              ELSE Res([f.h EXCEPT !.ring_id = @ + 1], "Ok"))))

\* A cap_ring without the early return for a ring of one point
CapRingNoReturn(h, ring, debug) ==
    Let(RingPoints(h, ring, 0),
        LAMBDA all :
          IF all = <<>> THEN Res(h, "InvalidRing")
          ELSE CapFan(h, ring, all, debug))

\* Husk::cap_ring
CapRing(h, ring, debug) ==
    Let(RingPoints(h, ring, 0),
        LAMBDA all :
          IF all = <<>> THEN Res(h, "InvalidRing")
          ELSE IF Len(all) = 1 THEN Res(h, "Ok")
          ELSE CapFan(h, ring, all, debug))

\* Husk::cap
Cap(h, debug) ==
    IF h.ring = None THEN Res(h, "Ok")
    ELSE CapRing([h EXCEPT !.ring = None], h.ring[1], debug)

\* A take_branch that leaves the label in the mapping
TakeBranchKeep(branches, label) == branches

\* Husk::take_branch: the mapping without the label
TakeBranch(branches, label) ==
    [l \in DOMAIN branches \ {label} |-> branches[l]]

\* A with_branch with one default spoke per distinct edge vertex
WithBranchDistinct(branch, frame) ==
    [id |-> 0, spacing |-> Some(1), scale |-> None, shading |-> None,
     spokes |-> [i \in 1..EdgeVertexCount(branch) |-> DefaultSpoke],
     xform |-> [frame |-> frame, rot |-> 0, tx |-> 0, ty |-> 0]]

\* Ring::with_branch: a ring in a new frame whose origin is the branch center
\* and whose Y axis is the branch axis (a unit vector, so spacing is 1), with
\* one default spoke per edge
WithBranch(branch, frame) ==
    [id |-> 0, spacing |-> Some(1), scale |-> None, shading |-> None,
     spokes |-> [i \in 1..Len(branch.edges) |-> DefaultSpoke],
     xform |-> [frame |-> frame, rot |-> 0, tx |-> 0, ty |-> 0]]

\* Push the (order_deg, vid) pairs of edge_angles as points with the current
\* ring id
PushEdgePoints(h, degs, vids) ==
    [h EXCEPT !.points =
       @ \o [i \in 1..Len(vids) |->
               [order_deg |-> degs[i], ring_id |-> h.ring_id,
                pt_type |-> Vertex(vids[i])]]]

\* Husk::branch after the cap.  edge and degs are the results of the floating
\* point steps of edge_angles: the index of the edge whose start vertex is
\* nearest to zero degrees, and the accumulated angle of each vertex.
BranchAfterCap(c, label, axis, edge, degs) ==
    IF c.res # "Ok" THEN c
    ELSE IF label \notin DOMAIN c.h.branches
         THEN Res(c.h, "UnknownBranchLabel")
    ELSE
      LET branch == c.h.branches[label]
          h1 == [c.h EXCEPT !.branches = TakeBranch(c.h.branches, label)]
          r0 == WithBranch(branch, h1.ring_id + 1)
          r1 == IF axis # None THEN RingAxis(r0, axis[1]) ELSE r0
          ring == [r1 EXCEPT !.id = h1.ring_id]
      IN IF branch.edges = <<>> THEN Res(h1, "Panic")
         ELSE Let(PushEdgePoints(h1, degs, EdgeVids(branch.edges, edge)),
                  LAMBDA h2 :
                    Res([h2 EXCEPT !.ring = Some(ring), !.ring_id = @ + 1],
                        "Ok"))

\* A branch that looks the label up before it caps the current ring
HuskBranchLooksFirst(h, label, axis, edge, degs, debug) ==
    IF label \notin DOMAIN h.branches THEN Res(h, "UnknownBranchLabel")
    ELSE Let(Cap(h, debug),
             LAMBDA c : BranchAfterCap(c, label, axis, edge, degs))

\* Husk::branch
HuskBranch(h, label, axis, edge, degs, debug) ==
    Let(Cap(h, debug),
        LAMBDA c : BranchAfterCap(c, label, axis, edge, degs))

\* self.builder of a husk, as the mesh builder that build() consumes
HuskMesh(h) == [base |-> 0, pos |-> h.pos, faces |-> h.faces]

\* The outcome of write_gltf: the husk, the result, the write_all calls that
\* succeeded, the one that failed and the number of indices of the mesh
Written(h, res, out, failed, indices) ==
    [h |-> h, res |-> res, out |-> out, failed |-> failed,
     indices |-> indices]

\* Husk::write_gltf(writer) on a writer that accepts every write_all call or
\* a number of them: cap, build, export
WriteGltfTo(h, jsonLen, debug, accepts) ==
    Let(Cap(h, debug), LAMBDA c :
        IF c.res # "Ok" THEN Written(c.h, c.res, <<>>, None, 0)
        ELSE Let(Build(HuskMesh(c.h)), LAMBDA m :
            IF m.res # "Ok" THEN Written(c.h, m.res, <<>>, None, 0)
            ELSE Let(ExportTo(m, jsonLen, debug, accepts), LAMBDA e :
                Written(c.h, e.res, e.out, e.failed, Len(m.indices)))))

\* ------------------------------------------------------------------ state

VARIABLES
    pos,        \* builder.pos: vertex positions
    faces,      \* builder.faces
    ring_id,    \* Husk::ring_id
    ring,       \* Husk::ring (None or the current ring)
    points,     \* Husk::points
    branches,   \* Husk::branches (label -> Branch)
    debug,      \* build profile: debug assertions enabled
    written,    \* the husk was consumed by write_gltf
    nops,       \* number of calls made so far
    limit,      \* number of calls the caller makes at most
    declared,   \* number of spokes the caller has declared so far
    entered,    \* labels a successful branch call has entered so far
    last,       \* the last call: operation, arguments, result, husk before
    mb,         \* a MeshBuilder used on its own
    mesh,       \* None or the outcome of the call that consumed or aborted mb
    glb,        \* None or the outcome of exporting mesh
    rg,         \* a Ring the caller applies setters to
    setter,     \* the last setter call: operation, argument, result, ring before,
                \* number of calls so far
    plane,      \* the arguments of Plane::new and, once made, the Plane
    query,      \* None or the last point_dist call: point and result
    sb,         \* a mesh builder that splits edge seams (src/mesh.rs)
    seam,       \* the position of build() in split_edge_seams
    chain,      \* a Branch's edges, a start edge and None or edge_vids' result
    angle,      \* a spoke (index i of n), the spoke count of the other ring,
                \* and None or the spoke's order and its order in the sweep
    sink        \* None or what write_gltf did to its writer

\* The variables of the husk
huskVars == <<pos, faces, ring_id, ring, points, branches, debug, written,
              nops, limit, declared, entered, last>>

\* The variables of the parts that are used on their own
meshVars == <<mb, mesh, glb>>

ringVars == <<rg, setter>>

planeVars == <<plane, query>>

seamVars == <<sb, seam>>

\* The variables of the parts added to the first four
restVars == <<seamVars, chain, angle, sink>>

partVars == <<meshVars, ringVars, planeVars, restVars>>

vars == <<huskVars, partVars>>

\* The husk as one record
Husk ==
    [pos |-> pos, faces |-> faces, ring_id |-> ring_id, ring |-> ring,
     points |-> points, branches |-> branches]

\* All sequences over S of length 0..n
SeqsUpTo(S, n) == UNION {[1..k -> S] : k \in 0..n}

\* Spokes the callers declare: Spoke::from(1.0), Spoke::from("a"), ...
SpokeKinds == {DefaultSpoke} \cup {Spoke(1, Some(l)) : l \in Labels}

\* Rings passed to Husk::ring in the topology specification
\* (at most MaxDeclared spokes are declared in all)
TopoRings ==
    {BuildRing(sp, None, None, None) :
        sp \in SeqsUpTo(SpokeKinds, MaxDeclared - declared)}

\* Angle steps (degrees) between consecutive edge vertices of a branch base
BranchSteps == {0, 120, 180}

\* Accumulated angles of k edge vertices that lie a constant step apart
BranchDegs(k) == {[j \in 1..k |-> (j * st) % 360] : st \in BranchSteps}

\* Number of edges of the branch that branch(label) takes after the cap c
EdgeCount(c, label) ==
    IF c.res = "Ok" /\ label \in DOMAIN c.h.branches
    THEN Len(c.h.branches[label].edges) ELSE 0

\* Indices (0-based) edge_angles can pick as the first edge
StartEdges(c, label) ==
    IF EdgeCount(c, label) = 0 THEN {0} ELSE 0..(EdgeCount(c, label) - 1)

\* Husk::new()
HuskStart ==
    /\ pos = <<>>
    /\ faces = <<>>
    /\ ring_id = 0
    /\ ring = None
    /\ points = <<>>
    /\ branches = <<>>
    /\ debug \in BOOLEAN
    /\ written = FALSE
    /\ nops = 0
    /\ declared = 0
    /\ entered = {}
    /\ last = [op |-> "new", res |-> "Ok", arg |-> None, label |-> None,
               pts |-> <<>>, pre |-> NewHusk, capped |-> Res(NewHusk, "Ok")]

\* Husk::new() by a caller that makes MaxOps calls at most
HuskInit == HuskStart /\ limit = MaxOps

\* No call on a ring yet
NoSetter == [op |-> "new", arg |-> None, res |-> "Ok", pre |-> None, n |-> 0]

\* No mesh builder is used on its own
MeshIdle ==
    /\ mb = NewMeshBuilder(0)
    /\ mesh = None
    /\ glb = None

\* No ring is used on its own
RingIdle ==
    /\ rg = RingWithPoints(DefaultRing, <<>>)
    /\ setter = NoSetter

\* No plane is used
PlaneIdle ==
    /\ plane = [normal |-> <<0, 1, 0>>, point |-> <<0, 0, 0>>, made |-> None]
    /\ query = None

\* build() of the seam builder was not called
NotBuilding == [pc |-> "push", idx |-> 0, vertices |-> 0]

\* No seam builder is used
SeamIdle ==
    /\ sb = SeamBuilder
    /\ seam = NotBuilding

\* No branch is used on its own
ChainIdle == chain = [edges |-> <<>>, start |-> 0, vids |-> None]

\* No angular order is computed on its own
AngleIdle ==
    angle = [i |-> 0, n |-> 1, other |-> 1, order |-> None, swept |-> None]

\* Nothing was handed a writer
SinkIdle == sink = None

\* None of the later parts is used
RestIdle ==
    /\ SeamIdle
    /\ ChainIdle
    /\ AngleIdle
    /\ SinkIdle

\* No part is used on its own
PartInit ==
    /\ MeshIdle
    /\ RingIdle
    /\ PlaneIdle
    /\ RestIdle

Init == HuskInit /\ PartInit

\* The process is still running and owns the husk
Alive == ~written /\ last.res # "Panic" /\ nops < limit

\* Store the husk of a result
Apply(r) ==
    /\ pos' = r.h.pos
    /\ faces' = r.h.faces
    /\ ring_id' = r.h.ring_id
    /\ ring' = r.h.ring
    /\ points' = r.h.points
    /\ branches' = r.h.branches

\* husk.ring(arg)
RingOp(Rings) ==
    /\ Alive
    /\ \E arg \in Rings :
         \E r \in {HuskRing(Husk, arg, debug)} :
            /\ Apply(r)
            /\ declared' = declared + Len(arg.spokes)
            /\ last' = [op |-> "ring", res |-> r.res, arg |-> Some(arg),
                        label |-> None, pts |-> <<>>, pre |-> Husk,
                        capped |-> Res(Husk, "Ok")]
    /\ nops' = nops + 1
    /\ UNCHANGED <<partVars, debug, written, limit, entered>>

\* husk.branch(label, None)
BranchOp ==
    /\ Alive
    /\ \E label \in Labels, c \in {Cap(Husk, debug)} :
         \E edge \in StartEdges(c, label), degs \in BranchDegs(EdgeCount(c, label)) :
            \E r \in {HuskBranch(Husk, label, None, edge, degs, debug)} :
               /\ Apply(r)
               /\ entered' = IF r.res = "Ok" THEN entered \cup {label}
                             ELSE entered
               /\ last' = [op |-> "branch", res |-> r.res, arg |-> None,
                           label |-> Some(label), pts |-> <<>>, pre |-> Husk,
                           capped |-> c]
    /\ nops' = nops + 1
    /\ UNCHANGED <<partVars, debug, written, limit, declared>>

\* husk.write_gltf(writer) on one of the writers: cap, then build and export
\* the mesh; the husk is consumed
WriteGltfOp(JsonLengths, Writers) ==
    /\ Alive
    /\ \E c \in {Cap(Husk, debug)}, jsonLen \in JsonLengths,
          accepts \in Writers :
          \E w \in {WriteGltfTo(Husk, jsonLen, debug, accepts)} :
             /\ Apply(Res(w.h, w.res))
             /\ last' = [op |-> "write_gltf", res |-> w.res, arg |-> None,
                         label |-> None, pts |-> <<>>, pre |-> Husk,
                         capped |-> c]
             /\ sink' = Some([accepts |-> accepts, out |-> w.out,
                              failed |-> w.failed, indices |-> w.indices])
    /\ written' = TRUE
    /\ nops' = nops + 1
    /\ UNCHANGED <<meshVars, ringVars, planeVars, seamVars, chain, angle,
                   debug, limit, declared, entered>>

\* write_gltf on a writer that accepts every byte
WriteGltf == WriteGltfOp({JsonLen}, {None})

Next == RingOp(TopoRings) \/ BranchOp \/ WriteGltf

\* The husk under any sequence of ring, branch and write_gltf calls
Spec == Init /\ [][Next]_vars

\* ------------------------------------------------------------------ add_face

\* Corners add_face can be handed: any vertex of the mesh and a branch point
\* of any label (add_face reads only pt_type)
FaceCorners ==
    {[order_deg |-> 0, ring_id |-> ring_id, pt_type |-> t] :
        t \in {Vertex(v) : v \in 0..(Len(pos) - 1)}
              \cup {Branch(l) : l \in Labels}}

\* self.add_face([p0, p1, p2], smoothing), as the last call on the husk
AddFaceOp ==
    /\ Alive
    /\ \E p0 \in FaceCorners, p1 \in FaceCorners, p2 \in FaceCorners :
         \E r \in {AddFace(Husk, <<p0, p1, p2>>, "Smooth", debug)} :
            /\ Apply(r)
            /\ last' = [op |-> "add_face", res |-> r.res, arg |-> None,
                        label |-> None, pts |-> <<p0, p1, p2>>, pre |-> Husk,
                        capped |-> Res(Husk, "Ok")]
    /\ nops' = limit
    /\ UNCHANGED <<partVars, debug, written, limit, declared, entered>>

NextFace == RingOp(TopoRings) \/ AddFaceOp

\* add_face applied to any three corners on a husk built by ring calls
SpecFace == Init /\ [][NextFace]_vars

\* ------------------------------------------------------------------ inherit

\* Rings with every combination of set and unset fields; a value that the
\* n-th call sets differs from the one that the call before it could set
FieldRings ==
    {BuildRing(sp, axis, scale, shading) :
        sp \in {<<>>, [i \in 1..(nops + 1) |-> DefaultSpoke]},
        axis \in {None, Some(AxisX2)},
        scale \in {None, Some(nops + 2)},
        shading \in {None, Some(IF nops % 2 = 0 THEN "Flat" ELSE "Smooth")}}

NextInherit == RingOp(FieldRings)

\* Rings that set or inherit each field
SpecInherit == Init /\ [][NextInherit]_vars

\* ------------------------------------------------------------------ band

\* Rings of two or more plain spokes, and the ring that declares no spoke
\* (it takes the spokes of the ring before it)
BandRings ==
    {BuildRing([i \in 1..k |-> DefaultSpoke], None, None, None) :
        k \in {0} \cup 2..MaxSpokes}

NextBand == RingOp(BandRings)

\* Rings of resolved vertices added one after the other
SpecBand == Init /\ [][NextBand]_vars

\* ------------------------------------------------------------ long sequences

\* Rings of the long call sequences: two plain spokes and a spoke labelled
\* "a", one spoke labelled "b", one plain spoke, and no spoke
LongRings ==
    {BuildRing(sp, None, None, None) :
        sp \in {<<DefaultSpoke, DefaultSpoke, Spoke(1, Some("a"))>>,
                <<Spoke(1, Some("b"))>>, <<DefaultSpoke>>, <<>>}}

\* Husk::new() by a caller that makes MaxLongOps calls at most
LongInit == HuskStart /\ limit = MaxLongOps /\ PartInit

NextLong == RingOp(LongRings) \/ BranchOp

\* The husk under longer sequences of ring and branch calls
SpecLong == LongInit /\ [][NextLong]_vars

\* ------------------------------------------------------------------ writers

\* Writers that fail one of the write_all calls, and the one that fails none
FailingWriters == {None} \cup {Some(k) : k \in 0..(WriteCalls - 1)}

\* Lengths of the root JSON text handed to the writer
RootJsonLens == {JsonLen, JsonLen + 1}

NextWrite == RingOp(LongRings) \/ WriteGltfOp(RootJsonLens, FailingWriters)

\* Rings and a final write_gltf on a writer that may fail
SpecWrite == Init /\ [][NextWrite]_vars

\* ------------------------------------------------------------------ mesh

\* Shading values (Face::surface) the callers use
Surfaces == {0, 1}

\* Vertices of a mesh whose BIN chunk and root JSON text of JsonLen bytes
\* take 24 bytes less than a u32 can count
ManyVertices ==
    (2 ^ (LenBits - 3)) \div 3 - (JsonLen \div (2 * Vec3Size) + 1)

\* Vertices the builder holds before the first face is pushed: none, three
\* less than the stored index can count, or ManyVertices
MeshBases == {0, IndexLimit - 3, ManyVertices}

\* The outcome of a call on the mesh builder
Outcome(op, m) == Some([op |-> op] @@ m)

\* A call that aborted before a mesh was made
Aborted == [res |-> "Panic", base |-> 0, pos |-> <<>>, norm |-> 0,
            indices |-> <<>>]

\* MeshBuilder::with_capacity and the vertices pushed before the first face
MeshInit ==
    /\ HuskInit
    /\ mb \in {NewMeshBuilder(b) : b \in MeshBases}
    /\ mesh = None
    /\ glb = None
    /\ RingIdle
    /\ PlaneIdle
    /\ RestIdle

\* push_vtx: the position is named after the vertex it is pushed for
PushVtxOp ==
    /\ mesh = None
    /\ Len(mb.pos) + Len(mb.faces) < MaxPushes
    /\ mb' = MeshPushVtx(mb, VertexCount(mb))
    /\ UNCHANGED <<huskVars, ringVars, planeVars, restVars, mesh, glb>>

\* Corners of the faces pushed: three vertices pushed after the base in
\* ascending order (Face::new's assertions hold), or one index that is
\* not a vertex yet
FaceVtx ==
    {v \in {<<a, b, c>> : a \in mb.base..(VertexCount(mb) - 1),
                          b \in mb.base..(VertexCount(mb) - 1),
                          c \in mb.base..VertexCount(mb)} :
        v[1] < v[2] /\ v[2] < v[3]}

\* push_face(Face::new(vtx, surface))
PushFaceOp ==
    /\ mesh = None
    /\ Len(mb.pos) + Len(mb.faces) < MaxPushes
    /\ \E vtx \in FaceVtx : \E surface \in Surfaces :
         \E r \in {MeshPushFace(mb, Face(vtx, surface))} :
            /\ mb' = r.mb
            /\ mesh' = IF r.res = "Panic"
                       THEN Outcome("push_face", Aborted)
                       ELSE None
    /\ UNCHANGED <<huskVars, ringVars, planeVars, restVars, glb>>

\* build(): mb stays as the builder that was built
BuildOp ==
    /\ mesh = None
    /\ mesh' = Outcome("build", Build(mb))
    /\ UNCHANGED <<huskVars, ringVars, planeVars, restVars, mb, glb>>

\* Lengths of the root JSON text: a multiple of 4 and the next length
JsonLens == {JsonLen, JsonLen + 1}

\* gltf::export(writer, &mesh) of the mesh that was built
ExportOp ==
    /\ mesh # None /\ mesh[1].op = "build" /\ mesh[1].res = "Ok"
    /\ glb = None
    /\ \E jsonLen \in JsonLens : glb' = Some(Export(mesh[1], jsonLen, debug))
    /\ UNCHANGED <<huskVars, ringVars, planeVars, restVars, mb, mesh>>

NextMesh == PushVtxOp \/ PushFaceOp \/ BuildOp \/ ExportOp

\* A mesh builder under any sequence of push_vtx and push_face calls, a
\* final build and the export of the mesh
SpecMesh == MeshInit /\ [][NextMesh]_vars

\* ------------------------------------------------------------------ setters

\* f32 values the callers pass: 0, 1 and 2 of either sign, the infinities
\* and NaN of either sign
Floats ==
    {F32(n, "finite", m) : n \in BOOLEAN, m \in 0..2}
    \cup {F32(n, k, 0) : n \in BOOLEAN, k \in {"inf", "nan"}}

\* Axis vectors the callers pass: axis-aligned vectors in the XY plane and
\* vectors with a component that is not finite
AxisInputs ==
    {<<F32(n, "finite", 2), F32(FALSE, "finite", 0), F32(FALSE, "finite", 0)>> :
        n \in BOOLEAN}
    \cup {<<F32(FALSE, "finite", 0), F32(FALSE, "finite", 1), z>> :
        z \in {F32(FALSE, "finite", 0), F32(FALSE, "nan", 0),
               F32(TRUE, "inf", 0)}}
    \cup {<<F32(FALSE, "inf", 0), F32(FALSE, "finite", 1),
            F32(FALSE, "finite", 0)>>,
          <<F32(FALSE, "finite", 0), F32(TRUE, "nan", 0),
            F32(FALSE, "finite", 0)>>}

\* Shading values
Shadings == {"Flat", "Smooth", "Ringed"}

\* A branch ring: Ring::with_branch of a branch with three edges
BranchRing ==
    Let([internal |-> <<>>, edges |-> <<<<0, 1>>, <<1, 2>>, <<2, 0>>>>],
        LAMBDA branch :
            RingWithPoints(WithBranch(branch, 1),
                [i \in 1..3 |->
                    [pt |-> Vertex(EdgeVids(branch.edges, 0)[i]),
                     order |-> (i - 1) * 120]]))

\* Ring::default(), or a branch ring
SetterInit ==
    /\ HuskInit
    /\ MeshIdle
    /\ PlaneIdle
    /\ RestIdle
    /\ rg \in {RingWithPoints(DefaultRing, <<>>), BranchRing}
    /\ setter = NoSetter

\* The caller still holds the ring
Holding == setter.res = "Ok" /\ setter.n < MaxSetters

\* Record a setter call and its outcome
Called(op, arg, panics, after) ==
    /\ setter' = [op |-> op, arg |-> Some(arg), pre |-> Some(rg),
                  res |-> IF panics THEN "Panic" ELSE "Ok",
                  n |-> setter.n + 1]
    /\ rg' = IF panics THEN rg ELSE after
    /\ UNCHANGED <<huskVars, meshVars, planeVars, restVars>>

\* ring.spoke(distance) / ring.spoke((distance, label))
SpokeOp ==
    /\ Holding
    /\ \E d \in Floats, l \in {None, Some("a")} :
         Called("spoke", Spoke(d, l), SpokePanics(rg, Spoke(d, l)),
                RingSpoke(rg, Spoke(d, l)))

\* ring.scale(scale)
ScaleOp ==
    /\ Holding
    /\ \E f \in Floats :
         Called("scale", f, ScalePanics(rg, f), RingScale(rg, f))

\* ring.axis(axis)
AxisOp ==
    /\ Holding
    /\ \E a \in AxisInputs :
         Called("axis", a, AxisPanics(a),
                IF AxisPanics(a) THEN rg
                ELSE RingAxis(rg, <<F32Val(a[1]), F32Val(a[2]),
                                    F32Val(a[3])>>))

\* ring.shading(shading)
ShadingOp ==
    /\ Holding
    /\ \E sh \in Shadings : Called("shading", sh, FALSE, RingShading(rg, sh))

NextSetters == SpokeOp \/ ScaleOp \/ AxisOp \/ ShadingOp

\* A ring under any sequence of setter calls
SpecSetters == SetterInit /\ [][NextSetters]_vars

\* ------------------------------------------------------------------ plane

\* Points with integer coordinates
Coords == {<<x, y, z>> : x \in (0 - MaxCoord)..MaxCoord,
                         y \in (0 - MaxCoord)..MaxCoord,
                         z \in (0 - MaxCoord)..MaxCoord}

\* Normals along a coordinate axis, of either direction, of length 1, 2, ..
Normals ==
    {v \in {<<x, y, z>> : x \in (0 - MaxNormal)..MaxNormal,
                          y \in (0 - MaxNormal)..MaxNormal,
                          z \in (0 - MaxNormal)..MaxNormal} :
        Cardinality({k \in 1..3 : v[k] # 0}) = 1}

\* The arguments of Plane::new
PlaneInit ==
    /\ HuskInit
    /\ MeshIdle
    /\ RingIdle
    /\ RestIdle
    /\ plane \in {[normal |-> n, point |-> p, made |-> None] :
                    n \in Normals, p \in Coords}
    /\ query = None

\* Plane::new(normal, point)
PlaneNewOp ==
    /\ plane.made = None
    /\ plane' = [plane EXCEPT
                    !.made = Some(PlaneNew(plane.normal, plane.point))]
    /\ UNCHANGED <<huskVars, meshVars, ringVars, restVars, query>>

\* plane.point_dist(q)
PointDistOp ==
    /\ plane.made # None
    /\ query = None
    /\ \E q \in Coords :
         query' = Some([point |-> q, dist |-> PointDist(plane.made[1], q)])
    /\ UNCHANGED <<huskVars, meshVars, ringVars, restVars, plane>>

NextPlane == PlaneNewOp \/ PointDistOp

\* A plane made from any normal and point, asked for the distance of any
\* point
SpecPlane == PlaneInit /\ [][NextPlane]_vars

\* ------------------------------------------------------------- edge seams

\* Corners of the faces pushed onto the seam builder: two corners may be the
\* same vertex, and the last may be an index that is not a vertex yet
SeamFaceVtx ==
    {v \in {<<a, b, c>> : a \in 0..(Len(sb.pos) - 1),
                          b \in 0..(Len(sb.pos) - 1),
                          c \in 0..Len(sb.pos)} :
        v[1] <= v[2] /\ v[2] < v[3]}

\* Faces the callers make: Face::new(vtx) and Face::new(vtx).with_flat()
SeamFaces ==
    {SeamFace(vtx) : vtx \in SeamFaceVtx} \cup
    {WithFlat(SeamFace(vtx)) : vtx \in SeamFaceVtx}

\* MeshBuilder::default()
SeamInit ==
    /\ HuskInit
    /\ MeshIdle
    /\ RingIdle
    /\ PlaneIdle
    /\ SeamIdle
    /\ ChainIdle
    /\ AngleIdle
    /\ SinkIdle

\* The caller may still push
SeamPushing ==
    seam.pc = "push" /\ Len(sb.pos) + Len(sb.faces) < MaxSeamPushes

\* push_vtx: the position is named after the vertex it is pushed for
SeamPushVtxOp ==
    /\ SeamPushing
    /\ sb' = SeamPushVtx(sb, Len(sb.pos))
    /\ UNCHANGED <<huskVars, meshVars, ringVars, planeVars, chain, angle, sink, seam>>

\* push_face
SeamPushFaceOp ==
    /\ SeamPushing
    /\ \E face \in SeamFaces :
         IF SeamPushFacePanics(sb, face)
         THEN seam' = [seam EXCEPT !.pc = "panic"] /\ sb' = sb
         ELSE seam' = seam /\ sb' = SeamPushFace(sb, face)
    /\ UNCHANGED <<huskVars, meshVars, ringVars, planeVars, chain, angle, sink>>

\* build() enters split_edge_seams: let vertices = self.pos.len()
SeamBuildOp ==
    /\ seam.pc = "push"
    /\ seam' = [pc |-> "split", idx |-> 0, vertices |-> Len(sb.pos)]
    /\ UNCHANGED <<huskVars, meshVars, ringVars, planeVars, chain, angle, sink, sb>>

\* One turn of the while loop: the vertex needs a split and is split
SeamSplitOp ==
    /\ seam.pc = "split" /\ seam.idx < seam.vertices
    /\ SeamNeedsSplit(sb, seam.idx)
    /\ sb' = SeamSplitVertex(sb, seam.idx)
    /\ UNCHANGED <<huskVars, meshVars, ringVars, planeVars, chain, angle, sink, seam>>

\* The while loop ends and the for loop goes on to the next vertex
SeamNextOp ==
    /\ seam.pc = "split" /\ seam.idx < seam.vertices
    /\ ~SeamNeedsSplit(sb, seam.idx)
    /\ seam' = [seam EXCEPT !.idx = @ + 1]
    /\ UNCHANGED <<huskVars, meshVars, ringVars, planeVars, chain, angle, sink, sb>>

\* The for loop ends and split_edge_seams returns the builder
SeamEndOp ==
    /\ seam.pc = "split" /\ seam.idx = seam.vertices
    /\ seam' = [seam EXCEPT !.pc = "done"]
    /\ UNCHANGED <<huskVars, meshVars, ringVars, planeVars, chain, angle, sink, sb>>

\* A step of split_edge_seams
SeamLoop == SeamSplitOp \/ SeamNextOp \/ SeamEndOp

NextSeams == SeamPushVtxOp \/ SeamPushFaceOp \/ SeamBuildOp \/ SeamLoop

\* A seam builder under any sequence of push_vtx and push_face calls and a
\* final build, whose loops run on once they are entered
SpecSeams == SeamInit /\ [][NextSeams]_vars /\ WF_vars(SeamLoop)

\* ------------------------------------------------------------- edge chain

\* Orders of k things
Orders(k) == {p \in [1..k -> 1..k] : \A i, j \in 1..k : i # j => p[i] # p[j]}

\* The edges of the directed simple cycle that visits the vertices p[1],
\* p[2], ..., p[k] and returns to p[1]
CycleEdges(p) == [i \in 1..Len(p) |-> <<p[i] - 1, p[(i % Len(p)) + 1] - 1>>]

\* Edge lists of a branch whose edges form one directed simple cycle, in
\* every order the edges can have been pushed in
CycleLists ==
    UNION {{[i \in 1..k |-> CycleEdges(p)[q[i]]] :
                p \in {o \in Orders(k) : o[1] = 1}, q \in Orders(k)} :
           k \in 1..MaxCycle}

\* A branch with the edges of one cycle and the index of a start edge
ChainInit ==
    /\ HuskInit
    /\ MeshIdle
    /\ RingIdle
    /\ PlaneIdle
    /\ SeamIdle
    /\ AngleIdle
    /\ SinkIdle
    /\ \E edges \in CycleLists : \E start \in 0..(Len(edges) - 1) :
          chain = [edges |-> edges, start |-> start, vids |-> None]

\* edge_vids(start)
EdgeVidsOp ==
    /\ chain.vids = None
    /\ chain' = [chain EXCEPT
                    !.vids = Some(EdgeVids(chain.edges, chain.start))]
    /\ UNCHANGED <<huskVars, meshVars, ringVars, planeVars, seamVars, angle, sink>>

NextChain == EdgeVidsOp

\* edge_vids applied to every edge list of a cycle and every start edge
SpecChain == ChainInit /\ [][NextChain]_vars

\* ---------------------------------------------------------- angular order

\* The smallest number of spokes whose last spoke lies less than half a
\* degree before the first
ManySpokes == 2 * 360 + 1

\* Spoke counts of the ring the spoke is on
RingSizes == 1..MaxRingSize \cup {ManySpokes}

\* A spoke of a ring and the spoke count of the ring it is banded with
AngleInit ==
    /\ HuskInit
    /\ MeshIdle
    /\ RingIdle
    /\ PlaneIdle
    /\ SeamIdle
    /\ ChainIdle
    /\ SinkIdle
    /\ \E n \in RingSizes : \E i \in 0..(n - 1) : \E other \in 1..MaxRingSize :
          angle = [i |-> i, n |-> n, other |-> other, order |-> None,
                   swept |-> None]

\* add_ring_points: Degrees::from(ring.angle(i))
DegreesFromOp ==
    /\ angle.order = None
    /\ angle' = [angle EXCEPT !.order = Some(DegreesFromAngle(angle.i, angle.n))]
    /\ UNCHANGED <<huskVars, meshVars, ringVars, planeVars, seamVars, chain, sink>>

\* ring_points: pt.order_deg + hs_other
HalfStepAddOp ==
    /\ angle.order # None /\ angle.swept = None
    /\ angle' = [angle EXCEPT !.swept =
                    Some(DegreesAdd(angle.order[1],
                                    HalfStep([spokes |->
                                        [k \in 1..angle.other |->
                                            DefaultSpoke]])))]
    /\ UNCHANGED <<huskVars, meshVars, ringVars, planeVars, seamVars, chain, sink>>

NextAngle == DegreesFromOp \/ HalfStepAddOp

\* The order of every spoke of a ring, alone and in the sweep of a band
SpecAngle == AngleInit /\ [][NextAngle]_vars

\* ------------------------------------------------------------------ claims

\* Number of husk points with a ring id
PointCount(pts, id) ==
    Cardinality({i \in 1..Len(pts) : pts[i].ring_id = id})

\* Every husk point with the ring id is a resolved vertex
Resolved(pts, id) ==
    \A i \in 1..Len(pts) : pts[i].ring_id = id => pts[i].pt_type.t = "Vertex"

\* Vertex indices of the husk points with a ring id
VertexIds(pts, id) ==
    {pts[i].pt_type.v : i \in {j \in 1..Len(pts) : pts[j].ring_id = id
                                                   /\ pts[j].pt_type.t = "Vertex"}}

\* The last call was ring(), it ran make_band and returned Ok
BandOk == last.op = "ring" /\ last.pre.ring # None /\ last.res = "Ok"

\* Point counts of the two rings of the last band
BandN0 == PointCount(points, last.pre.ring[1].id)
BandN1 == PointCount(points, ring[1].id)

\* Both rings of the last band have only resolved vertices
BandResolved ==
    /\ Resolved(points, last.pre.ring[1].id)
    /\ Resolved(points, ring[1].id)

\* The husk points with the ring id are pairwise different points
Distinct(pts, id) ==
    \A i, j \in 1..Len(pts) :
        (i < j /\ pts[i].ring_id = id /\ pts[j].ring_id = id) => pts[i] # pts[j]

\* The points of each ring of the last band are pairwise different
BandDistinct ==
    /\ Distinct(points, last.pre.ring[1].id)
    /\ Distinct(points, ring[1].id)

\* Faces the last call added
NewFaces == SubSeq(faces, Len(last.pre.faces) + 1, Len(faces))

\* C1 as stated: for two consecutive rings of resolved vertices with n0 >= 1
\* and n1 >= 1 points, make_band adds exactly n0 + n1 faces.
C1_AsStated ==
    (BandOk /\ BandResolved /\ BandN0 >= 1 /\ BandN1 >= 1)
        => Len(NewFaces) = BandN0 + BandN1

\* C1 amended: for two consecutive rings of resolved, pairwise different
\* points, make_band adds one face per point of each ring that has at least
\* two points and no face for a ring of one point; so n0 + n1 faces when
\* n0 >= 2 and n1 >= 2.
C1_BandFaces ==
    (BandOk /\ BandResolved /\ BandDistinct /\ BandN0 >= 1 /\ BandN1 >= 1)
        => Len(NewFaces) = (IF BandN0 >= 2 THEN BandN0 ELSE 0)
                           + (IF BandN1 >= 2 THEN BandN1 ELSE 0)

\* A band between two rings of three vertices each added six faces
C1_Witness ==
    /\ BandOk /\ BandResolved /\ BandDistinct
    /\ BandN0 = 3 /\ BandN1 = 3
    /\ Len(NewFaces) = 6

\* Vertex indices of both rings of the last band
BandVertexIds ==
    VertexIds(points, last.pre.ring[1].id) \cup VertexIds(points, ring[1].id)

\* Vertex v is a corner of one of the faces
InSomeFace(v, fs) == \E i \in 1..Len(fs), k \in 1..3 : fs[i].vtx[k] = v

\* C2 as stated: every vertex of both rings of a band (resolved vertices,
\* n0 >= 1, n1 >= 1) is a corner of at least one face make_band added.
C2_AsStated ==
    (BandOk /\ BandResolved /\ BandN0 >= 1 /\ BandN1 >= 1)
        => \A v \in BandVertexIds : InSomeFace(v, NewFaces)

\* C2 amended: every vertex of both rings of a band (resolved vertices,
\* n0 >= 1, n1 >= 1) is a corner of at least one face make_band added,
\* provided one of the rings has two or more points.
C2_BandCovers ==
    (BandOk /\ BandResolved /\ BandN0 >= 1 /\ BandN1 >= 1
       /\ (BandN0 >= 2 \/ BandN1 >= 2))
        => \A v \in BandVertexIds : InSomeFace(v, NewFaces)

\* A band between a ring of one vertex and a ring of two vertices covered all
\* three
C2_Witness ==
    /\ BandOk /\ BandResolved
    /\ BandN0 = 1 /\ BandN1 = 2
    /\ Cardinality(BandVertexIds) = 3
    /\ \A v \in BandVertexIds : InSomeFace(v, NewFaces)

\* The last call ran cap_ring on a current ring
CapCall == last.op \in {"branch", "write_gltf"} /\ last.pre.ring # None

\* Number of points of the ring that cap_ring was given
CapK == PointCount(last.pre.points, last.pre.ring[1].id)

\* The points of the capped ring are resolved vertices
CapResolved == Resolved(last.pre.points, last.pre.ring[1].id)

\* Faces cap_ring added
CapFaces ==
    SubSeq(last.capped.h.faces, Len(last.pre.faces) + 1,
           Len(last.capped.h.faces))

\* Index of the hub vertex cap_ring pushed
CapHub == Len(last.pre.pos)

\* The face has the hub and two vertices of the capped ring as its corners
HubFace(f) ==
    \E i \in 1..3 :
        /\ f.vtx[i] = CapHub
        /\ \A k \in (1..3) \ {i} :
              f.vtx[k] \in VertexIds(last.pre.points, last.pre.ring[1].id)

CapAddedNothing ==
    /\ last.capped.h.pos = last.pre.pos
    /\ last.capped.h.faces = last.pre.faces

\* C4 as stated: capping a ring of fewer than two points (0 or 1) returns Ok
\* and leaves the vertex list and the face list unchanged.
C4_AsStated ==
    (CapCall /\ CapK < 2) => (last.capped.res = "Ok" /\ CapAddedNothing)

\* C4 amended: capping a ring of fewer than two points adds no face and no
\* hub vertex; with one point the cap returns Ok, with no point it returns
\* the InvalidRing error.
C4_CapSmall ==
    (CapCall /\ CapK < 2)
        => /\ CapAddedNothing
           /\ last.capped.res = (IF CapK = 1 THEN "Ok" ELSE "InvalidRing")

\* write_gltf capped a ring of one point and returned Ok
C4_Witness ==
    /\ last.op = "write_gltf" /\ last.pre.ring # None
    /\ CapK = 1
    /\ last.res = "Ok" /\ CapAddedNothing

\* Labels of the Branch corners of the last add_face call
FaceLabels ==
    {last.pts[i].pt_type.l :
        i \in {k \in 1..Len(last.pts) : last.pts[k].pt_type.t = "Branch"}}

\* Number of Branch corners of the last add_face call
FaceBranches ==
    Cardinality({k \in 1..Len(last.pts) : last.pts[k].pt_type.t = "Branch"})

\* The last call left the mesh and every branch as they were
AddedNothing ==
    /\ pos = last.pre.pos
    /\ faces = last.pre.faces
    /\ branches = last.pre.branches

\* C5: add_face on one Vertex corner and two Branch corners of the same label
\* returns Ok and adds neither a mesh face nor an edge to any branch; when two
\* Branch corners carry different labels (two or three Branch corners) it
\* returns InvalidBranches and adds nothing.
C5_BranchFaces ==
    (last.op = "add_face")
        => /\ (FaceBranches = 2 /\ Cardinality(FaceLabels) = 1)
                => (last.res = "Ok" /\ AddedNothing)
           /\ (FaceBranches >= 2 /\ Cardinality(FaceLabels) >= 2)
                => (last.res = "InvalidBranches" /\ AddedNothing)

\* add_face was handed a vertex and two branch corners of different labels
\* and returned InvalidBranches
C5_Witness ==
    /\ last.op = "add_face"
    /\ FaceBranches = 2 /\ Cardinality(FaceLabels) = 2
    /\ last.res = "InvalidBranches"
    /\ Len(pos) > 0

\* The last call was branch(label) on a husk with the label in its mapping
BranchKnown ==
    last.op = "branch" /\ last.label[1] \in DOMAIN last.pre.branches

\* The last call was branch(label) on a husk without the label in its
\* mapping: never declared, or entered and not declared again
BranchUnknown ==
    last.op = "branch" /\ last.label[1] \notin DOMAIN last.pre.branches

\* C6 as stated: branch(label) succeeds only if label is a key of the branch
\* mapping and removes the key; with the label never declared, or entered
\* before and not declared again, it returns UnknownBranchLabel.
C6_AsStated ==
    /\ (last.op = "branch" /\ last.res = "Ok")
          => (BranchKnown /\ last.label[1] \notin DOMAIN branches)
    /\ BranchUnknown => last.res = "UnknownBranchLabel"

\* C6 amended: branch(label) succeeds only if label is a key of the branch
\* mapping and removes the key; with the label never declared, or entered
\* before and not declared again, it returns UnknownBranchLabel when the cap
\* of the current ring succeeds, and the outcome of that cap (an error or an
\* abort) when it does not.
C6_BranchTakes ==
    /\ (last.op = "branch" /\ last.res = "Ok")
          => (BranchKnown /\ last.label[1] \notin DOMAIN branches)
    /\ BranchUnknown
          => last.res = (IF last.capped.res = "Ok" THEN "UnknownBranchLabel"
                         ELSE last.capped.res)

\* A second branch(label) right after a successful one returned
\* UnknownBranchLabel
C6_Witness ==
    /\ BranchUnknown
    /\ last.label[1] \in entered
    /\ last.pre.ring # None
    /\ last.res = "UnknownBranchLabel"

\* Labels on the spokes of the ring handed to the last ring() call
DeclaredLabels ==
    {last.arg[1].spokes[i].label[1] :
        i \in {k \in 1..Len(last.arg[1].spokes) :
                  last.arg[1].spokes[k].label # None}}

\* The last call was ring() with a spoke that declares again a label entered
\* before
Redeclared(l) == last.op = "ring" /\ l \in DeclaredLabels /\ l \in entered

\* Number of spokes of the ring handed to the last ring() call with the label
LabelSpokes(l) ==
    Cardinality({k \in 1..Len(last.arg[1].spokes) :
                    last.arg[1].spokes[k].label = Some(l)})

\* C7 as stated: declaring again, on a spoke of a ring passed to ring(), a
\* label that branch(label) has entered is an error (unknown branch).
C7_AsStated ==
    \A l \in Labels : Redeclared(l) => last.res = "UnknownBranchLabel"

\* C7 amended: declaring again, on a spoke of a ring passed to ring(), a label
\* that branch(label) has entered is not an error: the call does not return
\* UnknownBranchLabel and the label is a key of the branch mapping again, a
\* new entry having one internal point per spoke with the label.
C7_Redeclare ==
    \A l \in Labels :
        (Redeclared(l) /\ last.res # "Panic")
            => /\ last.res # "UnknownBranchLabel"
               /\ l \in DOMAIN branches
               /\ (l \notin DOMAIN last.pre.branches
                     => Len(branches[l].internal) = LabelSpokes(l))

\* ring() declared a label again that was entered before, and returned Ok
C7_Witness ==
    \E l \in Labels :
        /\ Redeclared(l)
        /\ l \notin DOMAIN last.pre.branches
        /\ last.res = "Ok"
        /\ l \in DOMAIN branches

\* The last call was branch(label) and returned Ok
BranchOk == last.op = "branch" /\ last.res = "Ok"

\* The branch that the last branch(label) call took
Taken == last.capped.h.branches[last.label[1]]

\* Number of points the last branch(label) call pushed for the new ring
BranchPoints == Len(points) - Len(last.capped.h.points)

\* Every spoke of the current ring is the default spoke (distance 1.0)
DefaultSpokes ==
    \A i \in 1..Len(ring[1].spokes) : ring[1].spokes[i] = DefaultSpoke

\* Every edge vertex of the branch is the start of exactly one edge (the
\* edges form closed loops)
ClosedLoops(b) ==
    /\ \A i, j \in 1..Len(b.edges) : i # j => b.edges[i][1] # b.edges[j][1]
    /\ \A i \in 1..Len(b.edges) :
          \E j \in 1..Len(b.edges) : b.edges[i][2] = b.edges[j][1]

InheritCall ==
    last.op = "ring" /\ last.pre.ring # None /\ last.res # "Panic"

\* The value of an Option field after the merge: the new one when it is set
Merged(new, prev) == IF new # None THEN new ELSE prev

\* scale, shading and spokes of the built ring are merged field by field
FieldsMerged(built, new, prev) ==
    /\ built.scale = Merged(new.scale, prev.scale)
    /\ built.shading = Merged(new.shading, prev.shading)
    /\ built.spokes = (IF new.spokes # <<>> THEN new.spokes ELSE prev.spokes)

\* The ring passed to ring() sets no field
NoFieldSet(new) ==
    /\ new.spacing = None /\ new.scale = None /\ new.shading = None
    /\ new.spokes = <<>>

\* A ring with no field set yields a ring with the spoke list, point count,
\* scale and shading of the ring before it
SameAsBefore(built, new, prev) ==
    NoFieldSet(new)
        => /\ built.spokes = prev.spokes
           /\ built.scale = prev.scale
           /\ built.shading = prev.shading
           /\ last.res = "Ok"
                 => PointCount(points, built.id) = Len(prev.spokes)

\* C9 as stated: the ring built by ring() takes each of axis, scale, shading
\* and spokes from the new ring when it is set there and from the previous
\* ring otherwise; a ring with no field set has the spoke list, scale and
\* shading of the ring before it.
C9_AsStated ==
    InheritCall
        => /\ FieldsMerged(ring[1], last.arg[1], last.pre.ring[1])
           /\ ring[1].spacing
                 = Merged(last.arg[1].spacing, last.pre.ring[1].spacing)
           /\ ring[1].xform.rot
                 = (IF last.arg[1].spacing # None THEN last.arg[1].xform.rot
                    ELSE last.pre.ring[1].xform.rot)
           /\ SameAsBefore(ring[1], last.arg[1], last.pre.ring[1])

\* C9 amended: the ring built by ring() takes each of scale, shading, spokes
\* and the length of the axis from the new ring when it is set there and from
\* the previous ring otherwise; the direction of a set axis is applied on top
\* of the previous ring's orientation and an unset axis keeps that orientation;
\* a ring with no field set has the spoke list, scale and shading of the ring
\* before it.
C9_Inherit ==
    InheritCall
        => /\ FieldsMerged(ring[1], last.arg[1], last.pre.ring[1])
           /\ ring[1].spacing
                 = Merged(last.arg[1].spacing, last.pre.ring[1].spacing)
           /\ ring[1].xform.rot
                 = (last.pre.ring[1].xform.rot + last.arg[1].xform.rot) % 4
           /\ SameAsBefore(ring[1], last.arg[1], last.pre.ring[1])

\* The third of three rings set no field and has the spokes, scale and
\* shading that the first ring set
C9_Witness ==
    /\ InheritCall /\ last.res = "Ok"
    /\ nops = 3
    /\ NoFieldSet(last.arg[1])
    /\ ring[1].spokes = <<DefaultSpoke>>
    /\ ring[1].scale = Some(2)
    /\ ring[1].shading = Some("Flat")
    /\ last.pre.ring[1].scale = Some(2)

\* The last call was ring() and ran to its end (Ok or an error)
RingCall == last.op = "ring" /\ last.res # "Panic"

\* Number of spokes of the ring with the label
SpokesWith(r, l) ==
    Cardinality({k \in 1..Len(r.spokes) : r.spokes[k].label = Some(l)})

\* Number of spokes of the ring with any label
Labeled(r) ==
    Cardinality({k \in 1..Len(r.spokes) : r.spokes[k].label # None})

\* Number of internal points of the label's branch (none without an entry)
Internal(bs, l) == IF l \in DOMAIN bs THEN Len(bs[l].internal) ELSE 0

\* C10: ring() on a ring with N spokes, L of them labeled, adds N - L vertices
\* to the mesh and N points to the husk; each labeled spoke adds one position
\* to the internal points of the branch of its label, which gets an entry in
\* the mapping if it has none.
C10_RingPoints ==
    RingCall
        => /\ Len(pos) = Len(last.pre.pos) + Len(ring[1].spokes)
                            - Labeled(ring[1])
           /\ Len(points) = Len(last.pre.points) + Len(ring[1].spokes)
           /\ \A l \in Labels :
                 /\ Internal(branches, l)
                       = Internal(last.pre.branches, l) + SpokesWith(ring[1], l)
                 /\ SpokesWith(ring[1], l) > 0 => l \in DOMAIN branches

\* ring() on three spokes, two labeled with a label new to the mapping, added
\* one vertex, three points and two internal points
C10_Witness ==
    /\ RingCall
    /\ Len(ring[1].spokes) = 3 /\ Labeled(ring[1]) = 2
    /\ \E l \in Labels :
          /\ SpokesWith(ring[1], l) = 2
          /\ l \notin DOMAIN last.pre.branches
          /\ Internal(branches, l) = 2
    /\ Len(pos) = Len(last.pre.pos) + 1
    /\ Len(points) = Len(last.pre.points) + 3

\* C11 as stated: in every reachable state every face of the mesh has three
\* pairwise distinct vertex indices, each smaller than the vertex count.
C11_AsStated ==
    \A i \in 1..Len(faces) :
        /\ FaceDistinct(faces[i].vtx)
        /\ \A k \in 1..3 : faces[i].vtx[k] < Len(pos)

\* build() returned a mesh
Built == mesh # None /\ mesh[1].op = "build" /\ mesh[1].res = "Ok"

\* The index the mesh stores for corner k of face f
BuiltIndex(f, k) == mesh[1].indices[3 * (f - 1) + k]

\* The position the mesh stores for a vertex
BuiltPos(idx) == mesh[1].pos[idx - mesh[1].base + 1]

\* The position the builder held for a vertex
BuilderPos(idx) == mb.pos[idx - mb.base + 1]

\* Corners (face, corner) of the builder's faces
Corners == (1..Len(mb.faces)) \X (1..3)

\* The vertex a corner referred to before build()
CornerVtx(c) == mb.faces[c[1]].vtx[c[2]]

\* Two corners referred to one vertex with different shading values
SplitPair(c, d) ==
    /\ CornerVtx(c) = CornerVtx(d)
    /\ mb.faces[c[1]].smoothing # mb.faces[d[1]].smoothing

\* C12 as stated: after build(), two corners that referred to one vertex
\* with different shading values hold two distinct indices with the position
\* of that vertex, wherever the two faces sit in the face list.
C12_AsStated ==
    Built =>
        \A c \in Corners, d \in Corners :
            SplitPair(c, d) =>
                /\ BuiltIndex(c[1], c[2]) # BuiltIndex(d[1], d[2])
                /\ BuiltPos(BuiltIndex(c[1], c[2])) = BuilderPos(CornerVtx(c))
                /\ BuiltPos(BuiltIndex(d[1], d[2])) = BuilderPos(CornerVtx(c))

\* Corners that referred to vertex v before build()
CornersOf(v) == {c \in Corners : CornerVtx(c) = v}

\* Every corner at vertex v has the same shading value
SameShading(v) ==
    \A c \in CornersOf(v), d \in CornersOf(v) :
        mb.faces[c[1]].smoothing = mb.faces[d[1]].smoothing

\* Vertices build() added
AddedVertices == VertexCount(mb)..(mesh[1].base + Len(mesh[1].pos) - 1)

\* C13: after build(), a vertex all of whose corners have the same shading
\* value is still one index: every face that referred to it still does, and
\* no vertex was added at its position.
C13_SameShading ==
    Built =>
        \A v \in mb.base..(VertexCount(mb) - 1) :
            SameShading(v) =>
                /\ \A c \in CornersOf(v) : BuiltIndex(c[1], c[2]) = v
                /\ \A j \in AddedVertices : BuiltPos(j) # BuilderPos(v)

\* build() split some vertex and left alone a vertex that two faces with the
\* same shading value share
C13_Witness ==
    /\ Built
    /\ AddedVertices # {}
    /\ \E v \in mb.base..(VertexCount(mb) - 1) :
          /\ SameShading(v)
          /\ Cardinality({c[1] : c \in CornersOf(v)}) >= 2

\* build() was called
BuildCalled == mesh # None /\ mesh[1].op = "build"

\* Some face of a builder refers to an index that 16 bits cannot hold
IndexTooBig(m) ==
    \E f \in 1..Len(m.faces) : \E k \in 1..3 : m.faces[f].vtx[k] >= IndexLimit

\* Every index of the mesh is the one the face holds after splitting
StoredUnchanged(m) ==
    /\ Len(mesh[1].indices) = 3 * Len(m.faces)
    /\ \A f \in 1..Len(m.faces) : \A k \in 1..3 :
          /\ BuiltIndex(f, k) = m.faces[f].vtx[k]
          /\ BuiltIndex(f, k) \in 0..(IndexLimit - 1)

\* C14 as stated: build() fails whenever the vertex count after splitting
\* exceeds the range of the 16 bit index, and otherwise stores every face
\* index unchanged.
C14_AsStated ==
    BuildCalled =>
        IF VertexCount(SplitVertices(mb)) > IndexLimit
        THEN mesh[1].res = "Panic"
        ELSE mesh[1].res = "Ok" /\ StoredUnchanged(SplitVertices(mb))

\* C14, amended: build() fails exactly when, after splitting, some face
\* refers to an index above the 16 bit range (vertices no face refers to do
\* not count), and otherwise stores every face index unchanged.
C14_Build ==
    BuildCalled =>
        IF IndexTooBig(SplitVertices(mb))
        THEN mesh[1].res = "Panic"
        ELSE mesh[1].res = "Ok" /\ StoredUnchanged(SplitVertices(mb))

\* build() failed on a builder all of whose pushed faces had indices in
\* range: a vertex added by splitting is out of range
C14_Witness ==
    /\ BuildCalled
    /\ mesh[1].res = "Panic"
    /\ ~IndexTooBig(mb)

\* export returned Ok
ExportedOk == glb # None /\ glb[1].res = "Ok"

\* Sum of the bytes of writes i..
RECURSIVE BytesFrom(_, _)
BytesFrom(out, i) ==
    IF i > Len(out) THEN Wide(0)
    ELSE WideAdd(out[i].bytes, BytesFrom(out, i + 1))

\* The writes are the header (magic, version, total length) and two chunks
\* (length, type, payload)
GlbShape(out) ==
    /\ Len(out) = 9
    /\ <<out[1].what, out[2].what, out[3].what>>
          = <<"glTF", "version", "total_len">>
    /\ <<out[4].what, out[5].what, out[6].what>>
          = <<"len", "JSON", "JSON data">>
    /\ <<out[7].what, out[8].what, out[9].what>>
          = <<"len", "BIN", "BIN data">>
    /\ \A i \in {1, 2, 3, 4, 5, 7, 8} : out[i].bytes = Wide(4)

\* C15 as stated: for every mesh the total length field of the header is
\* the number of bytes export writes, each chunk length field is the length
\* of the payload after it, and both payloads are multiples of 4 long (JSON
\* padded with spaces, BIN with zero bytes).
C15_AsStated ==
    ExportedOk =>
        /\ GlbShape(glb[1].out)
        /\ glb[1].out[3].val = BytesFrom(glb[1].out, 1)
        /\ glb[1].out[4].val = glb[1].out[6].bytes
        /\ glb[1].out[7].val = glb[1].out[9].bytes
        /\ glb[1].out[6].bytes = WideAdd(glb[1].jsonLen, glb[1].spaces)
        /\ glb[1].out[9].bytes = BytesLen(glb[1].bin)
        /\ WideMod4(glb[1].out[6].bytes) = 0
        /\ WideMod4(glb[1].out[9].bytes) = 0

\* a <= b for byte counts
WideLeq(a, b) == a[1] < b[1] \/ (a[1] = b[1] /\ a[2] <= b[2])

\* The end of a buffer view
ViewEnd(v) == WideAdd(v.byteOffset, v.byteLength)

\* Bytes of the index region of the mesh that was exported
IndexBytes == WideMul(3 * Len(mb.faces), 2)

\* Bytes of the position region, and of the normal region
VectorBytes == WideMul(PositionCount(mesh[1]), 12)

\* C16: the binary buffer holds the index region (2 bytes x 3 x faces) at
\* offset 0, then the position region and then the normal region (12 bytes
\* x vertices each); every byteOffset is a multiple of 4, the regions do not
\* overlap, the index accessor counts 3 x faces, and the buffer's byteLength
\* is the sum of the three regions, each padded at its start.
C16_Layout ==
    ExportedOk =>
        /\ Len(glb[1].views) = 3
        /\ glb[1].views[1].byteOffset = Wide(0)
        /\ glb[1].views[1].byteLength = IndexBytes
        /\ glb[1].views[2].byteLength = VectorBytes
        /\ glb[1].views[3].byteLength = VectorBytes
        /\ \A i \in 1..3 : WideMod4(glb[1].views[i].byteOffset) = 0
        /\ WideLeq(ViewEnd(glb[1].views[1]), glb[1].views[2].byteOffset)
        /\ WideLeq(ViewEnd(glb[1].views[2]), glb[1].views[3].byteOffset)
        /\ glb[1].views[2].byteOffset
              = WideAdd(IndexBytes, PadTo4(IndexBytes))
        /\ glb[1].views[3].byteOffset = ViewEnd(glb[1].views[2])
        /\ glb[1].accessors[1].bufferView = 0
        /\ glb[1].accessors[1].count = 3 * Len(mb.faces)
        /\ glb[1].byteLength = ViewEnd(glb[1].views[3])
        /\ glb[1].byteLength
              = WideAdd(WideAdd(IndexBytes, PadTo4(IndexBytes)),
                        WideAdd(VectorBytes, VectorBytes))

\* A mesh with an odd number of faces was exported: the index region ends
\* off a 4 byte boundary
C16_Witness ==
    /\ ExportedOk
    /\ Len(mb.faces) % 2 = 1
    /\ PadTo4(IndexBytes) # Wide(0)

\* The last call was ring() on a husk with a current ring, so it had to band
\* the current ring and the new one, and one of the two has no point
BandOfNothing ==
    /\ last.op = "ring"
    /\ last.pre.ring # None
    /\ \/ PointCount(points, last.pre.ring[1].id) = 0
       \/ PointCount(points, last.pre.ring_id) = 0

\* C17 as stated: a ring() call that has to band two rings of which one has
\* no resolved point returns the InvalidRing error (it does not abort).
C17_AsStated == BandOfNothing => last.res = "InvalidRing"

\* The value is below zero (negative zero is not)
BelowZero(f) == f.neg /\ (f.kind = "inf" \/ (f.kind = "finite" /\ f.mag > 0))

\* Negative, infinite or NaN
BadNumber(f) == BelowZero(f) \/ f.kind = "inf" \/ f.kind = "nan"

\* Sign bit set (negative zero included), infinite or NaN
BadBits(f) == f.neg \/ f.kind = "inf" \/ f.kind = "nan"

\* The ring the last setter was applied to has resolved points
OnBranchRing == setter.pre[1].points # <<>>

\* The last setter left every field outside the set as it was
OnlyChanged(fields) ==
    /\ DOMAIN rg = DOMAIN setter.pre[1]
    /\ \A f \in (DOMAIN rg) \ fields : rg[f] = setter.pre[1][f]

\* The contract of the setters for a notion Bad of a refused number
SetterContract(Bad(_)) ==
    /\ setter.op = "spoke" =>
          /\ setter.res = "Panic"
                <=> (Bad(setter.arg[1].distance) \/ OnBranchRing)
          /\ setter.res = "Ok" =>
                /\ rg.spokes = Append(setter.pre[1].spokes, setter.arg[1])
                /\ OnlyChanged({"spokes"})
    /\ setter.op = "scale" =>
          /\ setter.res = "Panic" <=> (Bad(setter.arg[1]) \/ OnBranchRing)
          /\ setter.res = "Ok" =>
                /\ rg.scale = Some(setter.arg[1])
                /\ OnlyChanged({"scale"})
    /\ setter.op = "axis" =>
          /\ setter.res = "Panic"
                <=> \E k \in 1..3 : setter.arg[1][k].kind \in {"inf", "nan"}
          /\ setter.res = "Ok" => OnlyChanged({"spacing", "xform"})
    /\ setter.op = "shading" =>
          /\ setter.res = "Ok"
          /\ rg.shading = Some(setter.arg[1])
          /\ OnlyChanged({"shading"})

Asked == query # None

\* The point asked about, relative to the point the plane was made with
Offset ==
    <<query[1].point[1] - plane.point[1], query[1].point[2] - plane.point[2],
      query[1].point[3] - plane.point[3]>>

\* The vector of length 1 in the direction of the normal
UnitNormal ==
    CHOOSE u \in Normals :
        Dot(u, u) = 1 /\ \E k \in 1..MaxNormal :
            plane.normal = <<k * u[1], k * u[2], k * u[3]>>

\* C19: Plane::new(normal, point).point_dist(q) is the dot product of the
\* normalized normal and q - point: zero for q on the plane, positive on the
\* side the normal points to and negative on the other side; for the plane
\* through the origin with normal +Y it is q.y.
C19_PointDist ==
    Asked =>
        /\ query[1].dist = Dot(UnitNormal, Offset)
        /\ Dot(plane.normal, Offset) = 0 => query[1].dist = 0
        /\ Dot(plane.normal, Offset) > 0 => query[1].dist > 0
        /\ Dot(plane.normal, Offset) < 0 => query[1].dist < 0
        /\ (UnitNormal = <<0, 1, 0>> /\ plane.point = <<0, 0, 0>>)
              => query[1].dist = query[1].point[2]

\* The distance of a point on the negative side of a plane that does not
\* pass through the origin and whose normal is not a unit vector
C19_Witness ==
    /\ Asked
    /\ plane.normal # UnitNormal
    /\ plane.made[1].origin_dist # 0
    /\ query[1].dist < 0

\* The last add_face call pushed a face
FacePushed == Len(faces) > Len(last.pre.faces)

\* The corner (1..3) of the only Branch corner of the last add_face call
BranchCorner == CHOOSE k \in 1..3 : last.pts[k].pt_type.t = "Branch"

\* The two Vertex corners in cyclic corner order after the Branch corner
EdgeAfter(k) ==
    <<last.pts[(k % 3) + 1].pt_type.v, last.pts[((k + 1) % 3) + 1].pt_type.v>>

\* The last add_face call appended exactly that edge to the branch of its
\* Branch corner and changed nothing else
EdgeAppended ==
    /\ DOMAIN branches = DOMAIN last.pre.branches
    /\ last.pts[BranchCorner].pt_type.l \in DOMAIN last.pre.branches
    /\ \A l \in DOMAIN branches :
          /\ branches[l].internal = last.pre.branches[l].internal
          /\ branches[l].edges =
                IF l = last.pts[BranchCorner].pt_type.l
                THEN Append(last.pre.branches[l].edges, EdgeAfter(BranchCorner))
                ELSE last.pre.branches[l].edges
    /\ pos = last.pre.pos
    /\ faces = last.pre.faces

SharpFaces(b, v) == {f \in 1..Len(b.faces) : IsSharpVertex(b.faces[f], v)}

\* Corners of the seam builder's faces whose index differs before and after
\* a step
Repointed ==
    {c \in (1..Len(sb.faces)) \X (1..3) :
        sb'.faces[c[1]].vtx[c[2]] # sb.faces[c[1]].vtx[c[2]]}

\* A step that changes the builder while split_edge_seams runs appends one
\* vertex, a copy of the position of the vertex being split, and repoints
\* one reference of one face from that vertex to the new one
SplitStep ==
    (seam.pc = "split" /\ sb' # sb) =>
        /\ sb'.pos = Append(sb.pos, sb.pos[seam.idx + 1])
        /\ Len(sb'.faces) = Len(sb.faces)
        /\ \A f \in 1..Len(sb.faces) : sb'.faces[f].edge = sb.faces[f].edge
        /\ Cardinality(Repointed) = 1
        /\ \A c \in Repointed :
              /\ sb.faces[c[1]].vtx[c[2]] = seam.idx
              /\ sb'.faces[c[1]].vtx[c[2]] = Len(sb.pos)

\* No vertex is referenced by two faces that are sharp at it
SeamsSplit == \A v \in 0..(Len(sb.pos) - 1) : Cardinality(SharpFaces(sb, v)) <= 1

\* C21: split_edge_seams terminates; each of its split steps appends exactly
\* one vertex, a copy of the split vertex's position, and repoints exactly
\* one face's reference to it; when it returns, every vertex index is
\* referenced by at most one face that has a sharp corner at that vertex.
C21_SplitEdgeSeams ==
    /\ [][SplitStep]_vars
    /\ [](seam.pc = "done" => SeamsSplit)
    /\ (seam.pc = "split") ~> (seam.pc = "done")

\* split_edge_seams returned after it split a vertex that three flat faces
\* shared, one of them with two corners at it
C21_Witness ==
    /\ seam.pc = "done"
    /\ Len(sb.pos) >= seam.vertices + 3
    /\ \E f \in 1..Len(sb.faces) :
          /\ sb.faces[f].edge[1] = "Sharp"
          /\ sb.faces[f].vtx[1] >= seam.vertices
          /\ sb.faces[f].vtx[2] >= seam.vertices

\* The list of start vertices v follows the edges: each vertex is the start
\* of an edge that ends at the next vertex of the list, the last one at the
\* first
ChainOrder(v, edges) ==
    \A i \in 1..Len(v) :
        \E e \in 1..Len(edges) : edges[e] = <<v[i], v[(i % Len(v)) + 1]>>

\* C22: for a branch whose edges form exactly one directed simple cycle,
\* edge_vids(start) returns the cycle's vertices in chain order beginning
\* with the start vertex of edge number start, and every edge's start vertex
\* appears exactly once, whatever the order of the edge list and the start.
C22_EdgeVids ==
    chain.vids # None =>
        /\ Len(chain.vids[1]) = Len(chain.edges)
        /\ chain.vids[1][1] = chain.edges[chain.start + 1][1]
        /\ ChainOrder(chain.vids[1], chain.edges)
        /\ \A e \in 1..Len(chain.edges) :
              Cardinality({i \in 1..Len(chain.vids[1]) :
                              chain.vids[1][i] = chain.edges[e][1]}) = 1

\* edge_vids was asked for the third edge of a list of four edges of which
\* none is followed by its successor in the cycle
C22_Witness ==
    /\ chain.vids # None
    /\ Len(chain.edges) = 4
    /\ chain.start = 2
    /\ \A i \in 1..3 : chain.edges[i][2] # chain.edges[i + 1][1]

\* Vertices of the two rings of the last band
BandV0 == VertexIds(points, last.pre.ring[1].id)
BandV1 == VertexIds(points, ring[1].id)

\* The directed edges of a face, in its winding order
FaceEdges(f) == {<<f.vtx[1], f.vtx[2]>>, <<f.vtx[2], f.vtx[3]>>,
                 <<f.vtx[3], f.vtx[1]>>}

\* Number of new faces that traverse the directed edge e
Traversals(e) ==
    Cardinality({i \in 1..Len(NewFaces) : e \in FaceEdges(NewFaces[i])})

\* Number of new faces the edge e belongs to, in either direction
FacesAt(e) ==
    Cardinality({i \in 1..Len(NewFaces) :
                    e \in FaceEdges(NewFaces[i])
                    \/ <<e[2], e[1]>> \in FaceEdges(NewFaces[i])})

\* Directed edges of the new faces that join the two rings
CrossEdges ==
    {e \in UNION {FaceEdges(NewFaces[i]) : i \in 1..Len(NewFaces)} :
        \/ e[1] \in BandV0 /\ e[2] \in BandV1
        \/ e[1] \in BandV1 /\ e[2] \in BandV0}

\* The points with a ring id, in ascending angular order
RingOrder(id) == SortPoints(SelectSeq(points, LAMBDA p : p.ring_id = id))

\* The pairs of vertices of angularly consecutive points of a ring, the last
\* point being followed by the first
RingEdges(id) ==
    {<<RingOrder(id)[i].pt_type.v,
       RingOrder(id)[(i % Len(RingOrder(id))) + 1].pt_type.v>> :
        i \in 1..Len(RingOrder(id))}

\* The last call made a band between two rings of two or more resolved
\* vertices each
TubeBand == BandOk /\ BandResolved /\ BandN0 >= 2 /\ BandN1 >= 2

\* Every new face has a corner on each ring
FacesJoin ==
    \A i \in 1..Len(NewFaces) :
        /\ \E k \in 1..3 : NewFaces[i].vtx[k] \in BandV0
        /\ \E k \in 1..3 : NewFaces[i].vtx[k] \in BandV1

\* Every edge that joins the rings is traversed once in each direction
CrossShared ==
    \A e \in CrossEdges : Traversals(e) = 1 /\ Traversals(<<e[2], e[1]>>) = 1

\* C23 as stated: between two rings of n0 >= 2 and n1 >= 2 resolved vertices
\* every band face has a corner on each ring, every edge that joins the two
\* rings is shared by exactly two band faces that traverse it in opposite
\* directions, and every edge between angularly consecutive points of one
\* ring belongs to exactly one band face.
C23_AsStated ==
    TubeBand =>
        /\ FacesJoin
        /\ CrossShared
        /\ \A id \in {last.pre.ring[1].id, ring[1].id} :
              \A e \in RingEdges(id) : FacesAt(e) = 1

\* C23, amended: between two rings added by ring() with n0 >= 2 and n1 >= 2
\* plain spokes every band face has a corner on each ring; each edge from a
\* point of the first ring to the angularly next one is traversed by exactly
\* one band face, and each such edge of the second ring by exactly one band
\* face in the reverse direction.  When both rings have three or more points
\* that face is the only band face the ring edge belongs to, while the one
\* segment of a two-point ring belongs to two band faces.  Unless both rings
\* have two points, every edge that joins the rings is shared by exactly two
\* band faces that traverse it in opposite directions; between two two-point
\* rings one diagonal belongs to all four band faces.
C23_Tube ==
    TubeBand =>
        /\ FacesJoin
        /\ \A e \in RingEdges(last.pre.ring[1].id) : Traversals(e) = 1
        /\ \A e \in RingEdges(ring[1].id) : Traversals(<<e[2], e[1]>>) = 1
        /\ \A e \in RingEdges(last.pre.ring[1].id) :
              FacesAt(e) = IF BandN0 = 2 THEN 2 ELSE 1
        /\ \A e \in RingEdges(ring[1].id) :
              FacesAt(e) = IF BandN1 = 2 THEN 2 ELSE 1
        /\ IF BandN0 = 2 /\ BandN1 = 2
           THEN /\ Len(NewFaces) = 4
                /\ \E e \in CrossEdges : FacesAt(e) = 4
           ELSE CrossShared

\* A band between a ring of three and a ring of five vertices
C23_Witness ==
    /\ TubeBand
    /\ BandN0 = 3 /\ BandN1 = 5
    /\ Len(NewFaces) = 8

\* A number of degrees in the range of a full turn
InTurn(d) == d \in 0..359

\* C24 as stated: the angular order of a point is an integer number of
\* degrees in 0..359, both when it is derived from the spoke's index and
\* after the half-step of the other ring has been added for the band sweep.
C24_AsStated ==
    /\ angle.order # None => InTurn(angle.order[1])
    /\ angle.swept # None => InTurn(angle.swept[1])

\* The last call was branch(label) on a husk with an open ring and returned
\* Ok or UnknownBranchLabel
BranchReturned ==
    /\ last.op = "branch" /\ last.pre.ring # None
    /\ last.res \in {"Ok", "UnknownBranchLabel"}

\* The ring built for the branch that the last call took
BranchRingOf(h) ==
    [WithBranch(h.branches[last.label[1]], h.ring_id + 1)
        EXCEPT !.id = h.ring_id]

\* What the cap of the open ring added is in the husk, and the last call
\* added no vertex and no face to it
CapKept ==
    /\ pos = last.capped.h.pos
    /\ faces = last.capped.h.faces
    /\ \A l \in DOMAIN branches : branches[l] = last.capped.h.branches[l]
    /\ DOMAIN last.capped.h.branches \ DOMAIN branches \subseteq
          {last.label[1]}

\* The current-ring slot after the last call: the branch ring after Ok, empty
\* after UnknownBranchLabel
RingSlot ==
    IF last.res = "Ok"
    THEN ring = Some(BranchRingOf(last.capped.h))
    ELSE ring = None

WriteOrder ==
    <<"glTF", "version", "total_len", "len", "JSON", "JSON data",
      "len", "BIN", "BIN data">>

\* What each of the calls the writer received was writing
Whats(out) == [i \in 1..Len(out) |-> out[i].what]

\* write_gltf has returned to its caller
WriteReturned ==
    last.op = "write_gltf" /\ sink # None /\ last.res # "Panic"

\* The writer received the first calls of the order and nothing else
WrittenInOrder ==
    /\ Len(sink[1].out) <= Len(WriteOrder)
    /\ Whats(sink[1].out) = SubSeq(WriteOrder, 1, Len(sink[1].out))

\* C26: write_gltf caps the open ring, then builds the mesh, then exports
\* it.  When the cap returns an error, that error is the result and nothing
\* is written.  Otherwise the mesh that is exported has the faces of the
\* capped husk, the writer receives the header, the JSON chunk and the BIN
\* chunk in that order, and the first write that fails ends the export: its
\* error is the result, the calls before it are all the writer accepted and
\* no later call is made.
C26_WriteExport ==
    WriteReturned =>
        /\ Husk = last.capped.h
        /\ last.capped.res # "Ok" =>
              /\ last.res = last.capped.res
              /\ sink[1].out = <<>>
              /\ sink[1].failed = None
        /\ last.capped.res = "Ok" =>
              /\ sink[1].indices = 3 * Len(last.capped.h.faces)
              /\ WrittenInOrder
              /\ IF sink[1].accepts = None
                 THEN /\ last.res = "Ok"
                      /\ sink[1].failed = None
                      /\ Len(sink[1].out) = Len(WriteOrder)
                 ELSE /\ last.res = "Io"
                      /\ Len(sink[1].out) = sink[1].accepts[1]
                      /\ sink[1].failed # None
                      /\ sink[1].failed[1].what
                            = WriteOrder[sink[1].accepts[1] + 1]

\* A cap that added a hub, and a writer that failed in the JSON chunk
C26_Witness ==
    /\ WriteReturned
    /\ last.capped.res = "Ok"
    /\ Len(last.capped.h.faces) > Len(last.pre.faces)
    /\ sink[1].failed # None
    /\ sink[1].failed[1].what = "JSON data"
    /\ Len(sink[1].out) = 5

\* ---------------------------------------------------------------- C27

\* A call of ring, branch or write_gltf has returned
CallReturned ==
    last.op \in {"ring", "branch", "write_gltf"} /\ last.res # "Panic"

\* The cap of the last call added a hub vertex
HubAdded == Len(last.capped.h.pos) > Len(last.pre.pos)

\* One for a ring or a branch that returned Ok
OwnStep ==
    IF last.op \in {"ring", "branch"} /\ last.res = "Ok" THEN 1 ELSE 0

\* Every id in use is below the counter: ids handed out later are new
FreshIds(h) ==
    /\ \A i \in 1..Len(h.points) : h.points[i].ring_id < h.ring_id
    /\ h.ring # None => h.ring[1].id < h.ring_id

\* The last call was a ring() that handed two rings to make_band
BandMade == last.op = "ring" /\ last.res # "Panic" /\ last.pre.ring # None

\* The last call was a ring() that failed in make_band
BandFailed == BandMade /\ last.res # "Ok"

\* Number of spokes without a label
RECURSIVE PlainSpokes(_, _)
PlainSpokes(spokes, i) ==
    IF i > Len(spokes) THEN 0
    ELSE (IF spokes[i].label = None THEN 1 ELSE 0) + PlainSpokes(spokes, i + 1)

\* The ring handed to make_band as ring1 has an id of its own: the points
\* the call added carry it, no earlier point does, and none of the points
\* added carries the id of ring0
BandIdsApart ==
    /\ ring[1].id # last.pre.ring[1].id
    /\ \A i \in 1..Len(points) :
          /\ (points[i].ring_id = ring[1].id) <=> (i > Len(last.pre.points))
          /\ (points[i].ring_id = last.pre.ring[1].id)
                => (i <= Len(last.pre.points))

\* What a ring() that failed in make_band leaves behind
BandFailureLeft ==
    /\ ring # None
    /\ ring[1].id = ring_id
    /\ ring_id = last.pre.ring_id
    /\ Len(points) = Len(last.pre.points) + Len(ring[1].spokes)
    /\ Len(pos) = Len(last.pre.pos) + PlainSpokes(ring[1].spokes, 1)
    /\ \A i \in (Len(last.pre.points) + 1)..Len(points) :
          points[i].ring_id = ring_id

\* A ring() that follows a ring() that failed in make_band
RingAfterFailure ==
    (BandFailed /\ last'.op = "ring" /\ nops' = nops + 1)
        => last'.res = "InvalidRing"

\* C27 as stated: the counter advances on every cap that adds a hub
C27_AsStated ==
    CallReturned =>
        ring_id = last.pre.ring_id + (IF HubAdded THEN 1 ELSE 0) + OwnStep

\* The state part of C27
CounterRule ==
    /\ CallReturned =>
          ring_id = last.pre.ring_id
                    + (IF HubAdded /\ last.capped.res = "Ok" THEN 1 ELSE 0)
                    + OwnStep
    /\ (CallReturned /\ FreshIds(last.pre) /\ last.res = "Ok")
          => FreshIds(Husk)
    /\ (BandMade /\ FreshIds(last.pre)) => BandIdsApart
    /\ BandFailed => BandFailureLeft

\* C27: the ring id counter advances by one for every ring() that returns
\* Ok, every cap that adds a hub and completes its faces, and every branch
\* that returns Ok.  While every call has returned Ok all ids in use are
\* below the counter, so the two rings handed to make_band have different
\* ids and no point of one carries the id of the other.  A ring() that fails
\* in make_band leaves the new ring stored as the current ring, its points
\* and vertices added and the counter where it was, and a ring() that
\* follows it returns InvalidRing.
C27_RingIds ==
    /\ FreshIds(NewHusk)
    /\ []CounterRule
    /\ [][RingAfterFailure]_vars

\* A ring() that returned InvalidRing because the ring() before it failed in
\* make_band and left its ring stored with the id the counter still holds
C27_Witness ==
    /\ BandMade
    /\ last.res = "InvalidRing"
    /\ last.pre.ring[1].id = last.pre.ring_id
    /\ Len(last.pre.points) > 0
    /\ BandFailureLeft

\* ---------------------------------------------------------------- C28

\* The points of the husk that carry the id of its current ring
CurrentPoints(h) ==
    IF h.ring = None THEN {}
    ELSE {i \in 1..Len(h.points) : h.points[i].ring_id = h.ring[1].id}

\* Every branch-labelled point of the current ring has its label as a key of
\* the branch mapping
LabelsKnown(h) ==
    \A i \in CurrentPoints(h) :
        h.points[i].pt_type.t = "Branch"
            => h.points[i].pt_type.l \in DOMAIN h.branches

\* Every branch of the mapping has an internal point
BranchesCentered(h) ==
    \A l \in DOMAIN h.branches : Len(h.branches[l].internal) >= 1

\* The last call got UnknownBranchLabel from add_face: a ring() returns it
\* from make_band, a cap from one of its fan faces
AddFaceUnknown ==
    \/ last.op = "ring" /\ last.res = "UnknownBranchLabel"
    \/ last.op = "branch" /\ last.capped.res = "UnknownBranchLabel"

\* C28 as stated: in every state reached by ring and branch calls each
\* branch-labelled point of the current ring has its label in the branch
\* mapping and every branch of the mapping has an internal point, and
\* add_face has not returned UnknownBranchLabel
C28_AsStated ==
    /\ LabelsKnown(Husk)
    /\ BranchesCentered(Husk)
    /\ ~AddFaceUnknown

\* ---------------------------------------------------------------- C29

\* branch(label) has returned Ok
BranchEntered == last.op = "branch" /\ last.res = "Ok"

\* The edges of the branch that the call took, after the cap of the open ring
TakenEdges == last.capped.h.branches[last.label[1]].edges

\* The points that carry the id of the current ring, in the order of
\* self.points
RingPointsOf(h) ==
    RingPointsFilter(h.points, h.ring[1].id, 0)

\* The points are one Vertex point per edge of the branch, in an order that
\* edge_vids produces
EdgeStarts(pts) ==
    /\ Len(pts) = Len(TakenEdges)
    /\ \E edge \in 0..(Len(TakenEdges) - 1) :
          \A i \in 1..Len(pts) :
              pts[i].pt_type = Vertex(EdgeVids(TakenEdges, edge)[i])

\* C29 as stated: after branch(label) returns Ok the points of the new
\* current ring are one Vertex point per edge of the branch, the start
\* vertices of the edges in the order of edge_vids, so the ring has as many
\* points as the branch had edges; the call itself pushes no vertex (the
\* positions are those the cap left)
C29_AsStated ==
    BranchEntered =>
        /\ EdgeStarts(RingPointsOf(Husk))
        /\ ring[1].id = ring_id - 1
        /\ Len(ring[1].spokes) = Len(TakenEdges)
        /\ pos = last.capped.h.pos

\* ---------------------------------------------------------------- C30

\* Splitting keeps the faces: the builder m after split_vertices has the
\* faces of the builder in number, order and shading value, and the position
\* found at every corner is the one found there before
FacesKept(m) ==
    /\ Len(m.faces) = Len(mb.faces)
    /\ \A f \in 1..Len(mb.faces) :
          /\ m.faces[f].smoothing = mb.faces[f].smoothing
          /\ \A k \in 1..3 :
                m.pos[m.faces[f].vtx[k] - mb.base + 1]
                    = BuilderPos(mb.faces[f].vtx[k])

\* The positions of the builder are the first positions of the mesh, and the
\* mesh has the positions of the builder m after split_vertices
PositionsKept(m) ==
    /\ mesh[1].base = mb.base
    /\ Len(mesh[1].pos) >= Len(mb.pos)
    /\ SubSeq(mesh[1].pos, 1, Len(mb.pos)) = mb.pos
    /\ mesh[1].pos = m.pos

\* The index buffer lists the three corners of each face of m, face by face,
\* and every index is the index of a position of the mesh
IndicesListed(m) ==
    /\ Len(mesh[1].indices) = 3 * Len(mb.faces)
    /\ \A f \in 1..Len(mb.faces) : \A k \in 1..3 :
          /\ BuiltIndex(f, k) = m.faces[f].vtx[k]
          /\ BuiltIndex(f, k) < mesh[1].base + Len(mesh[1].pos)
          /\ BuiltPos(BuiltIndex(f, k)) = BuilderPos(mb.faces[f].vtx[k])

\* C30: vertex splitting and build() only append vertices.  The number and
\* the order of the faces and the position found at every face corner are
\* those of the builder, the positions of the vertices the builder had are
\* unchanged, every index of the index buffer is smaller than the number of
\* positions, the index buffer lists the three indices of each face in face
\* order (its length is three times the face count), and there is one normal
\* for each position.
C30_BuildAppends ==
    Built =>
        Let(SplitVertices(mb), LAMBDA m :
            /\ FacesKept(m)
            /\ PositionsKept(m)
            /\ IndicesListed(m)
            /\ mesh[1].norm = mesh[1].base + Len(mesh[1].pos))

\* A build() that split a vertex of a builder with two faces or more
C30_Witness ==
    /\ Built
    /\ Len(mb.faces) >= 2
    /\ Len(mesh[1].pos) > Len(mb.pos)
    /\ \E f \in 1..Len(mb.faces) : \E k \in 1..3 :
          BuiltIndex(f, k) # mb.faces[f].vtx[k]

====
